---- MODULE Spec2Model ----
(***************************************************************************)
(* Load balancer engine: the backend registry (BackendManager), the        *)
(* round-robin routing policy (RoundRobinPolicy), the request router and   *)
(* request handler (RequestRouter, main), and the health monitor           *)
(* (HealthChecker).                                                        *)
(*                                                                         *)
(* A BackendServer* is modelled by the backend's index in backends_; a     *)
(* std::vector<BackendServer*> by a sequence of such indices.  Indices are *)
(* 0-based as in the code; sequences are 1-based, so backends[index] of    *)
(* the code reads list[index + 1] here.                                    *)
(***************************************************************************)
EXTENDS Integers, Sequences, FiniteSets, TLC

\* ------------------------------------------------------------------ bounds
\* Largest number of configured backends in the registry-level and the
\* policy-level specifications.
MaxBackends == 3

\* Largest number of successful selects in the policy-level specification.
MaxSelects == 9
\* Largest number of configured backends with the whole load balancer running.
SysBackends == 2
\* Requests start while the counter is below this.
MaxRequests == 1
\* Width of the counter in bits (std::atomic<size_t>, scaled down).
CounterBits == 5
\* Backends of the system when its scheduling is part of the specification.
ServeBackends == 1
\* The number of calls of select in the run of the policy under churn.
MaxTurns == 2
\* The number of calls of HealthChecker::start.
MaxStarts == 2
\* The width of int, scaled down from 32 bits.
IntBits == 4
CounterMod == 2 ^ CounterBits

\* ------------------------------------------------------- program constants
BasePort == 8080
NoBackendsMsg == "No healthy backends available"

\* The threads of the process: the health-check jthread and two of the
\* HTTP server's request workers.
HC == "hc"
Workers == {"w1", "w2"}
Threads == {HC} \cup Workers

VARIABLES
    backends_,      \* BackendManager::backends_ : index -> BackendServer (immutable part)
    is_healthy,     \* BackendServer::is_healthy, by index
    mutex_,         \* BackendManager::mutex_ : [shared : Nat, unique : BOOLEAN]
    pc,             \* per thread: position in the code
    it,             \* per thread: position of the range-for inside a registry read
    result,         \* per thread: the vector a registry read is building / has returned
    arg,            \* per thread: update_health's arguments [index, is_healthy]
    snapFlags,      \* per thread (history): is_healthy when get_healthy_backends took the lock
    counter_,       \* RoundRobinPolicy::counter_
    cand,           \* per thread: select's argument `backends` (the router's healthy_backends)
    sel,            \* per thread: the std::expected select / select_backend returned
    hist,           \* history (not program state): the policy's successful selects,
                    \* the health monitor's log lines
    conn,           \* per request worker: the backends this request opened a connection to
    resp,           \* per request worker: the response written to the client
    resp_headers,   \* per request worker: the response's header entries (res.headers)
    backend_res,    \* per request worker: the handler's backend_res
    req,            \* per request worker: the inbound request (the handler's req)
    sent,           \* per request worker: the request the handler sent to the backend
    hc_backends,    \* health_check_loop: local `backends`
    hc_i,           \* health_check_loop: loop variable i
    was_healthy,    \* health_check_loop: local was_healthy
    probe_ok,       \* health_check_loop: local is_healthy (the probe's result)
    probe_res,      \* check_backend_health: what the probe's GET came back with
    stop_requested, \* the jthread's stop state
    main_pc,        \* main: position in its shutdown sequence
    up,             \* environment: whether backend i answers its health endpoint with 200
    startup         \* the process's start-up, a record of
                    \*   loops: per started thread, its health_check_loop's position, i and stop state
                    \*   health_check_thread_: the thread the HealthChecker owns, 0 for none
                    \*   start_pc: the caller of start(), its position and the std::jthread temporary
                    \*   config_file: the search paths that hold config.json, and its content
                    \*   config_result: what ConfigLoader::load returned to main

regVars == <<backends_, is_healthy, mutex_>>
callVars == <<it, result, arg, snapFlags>>
polVars == <<counter_, cand, sel>>
reqVars == <<conn, resp, resp_headers, backend_res, req, sent>>
hcVars == <<hc_backends, hc_i, was_healthy, probe_ok, probe_res>>
envVars == <<stop_requested, main_pc, up>>
startVars == <<startup>>
loops == startup.loops
health_check_thread_ == startup.health_check_thread_
start_pc == startup.start_pc
config_file == startup.config_file
config_result == startup.config_result
\* Everything a BackendManager call leaves alone.
nonRegVars == <<polVars, hist, reqVars, hcVars, envVars>>
vars == <<backends_, is_healthy, mutex_, pc, it, result, arg, snapFlags,
          counter_, cand, sel, hist, conn, resp, resp_headers, backend_res, req, sent,
          hc_backends, hc_i, was_healthy, probe_ok, probe_res,
          stop_requested, main_pc, up, startup>>

\* ---------------------------------------------------------------- helpers
Size == Cardinality(DOMAIN backends_)
Indices == DOMAIN backends_

BackendServer(i) == [host |-> "localhost", port |-> BasePort + i, health_endpoint |-> "/health"]

\* BackendManager's constructor: one BackendServer per BackendConfig, in order,
\* every is_healthy flag true.
Config(n) == [i \in 0..(n - 1) |-> BackendServer(i)]

Ports(list) == [k \in 1..Len(list) |-> backends_[list[k]].port]

NoArg == [index |-> 0, is_healthy |-> TRUE]

\* The indices 0..n-1 whose flag is true in flags, in increasing order.
RECURSIVE HealthyUpTo(_, _)
HealthyUpTo(flags, n) ==
    IF n = 0 THEN <<>>
    ELSE IF flags[n - 1] THEN Append(HealthyUpTo(flags, n - 1), n - 1)
         ELSE HealthyUpTo(flags, n - 1)

RECURSIVE AllUpTo(_)
AllUpTo(n) == IF n = 0 THEN <<>> ELSE Append(AllUpTo(n - 1), n - 1)

\* ------------------------------------------------------ std::shared_mutex
CanLockShared_IgnoreWriter(m) == TRUE
CanLockShared(m) == ~m.unique

CanLockUnique_NoReaderCheck(m) == ~m.unique
CanLockUnique(m) == ~m.unique /\ m.shared = 0

LockShared(m) == [m EXCEPT !.shared = @ + 1]
UnlockShared(m) == [m EXCEPT !.shared = @ - 1]
LockUnique(m) == [m EXCEPT !.unique = TRUE]
UnlockUnique(m) == [m EXCEPT !.unique = FALSE]

\* Who holds the lock, read off the threads' positions.
SharedHolders == {t \in Threads : pc[t] \in {"ga_loop", "gh_loop", "bc_body"}}
UniqueHolders == {t \in Threads : pc[t] \in {"uh_store", "uh_unlock"}}

\* --------------------------------------- BackendManager::get_all_backends
GaLock(t) ==
    /\ pc[t] = "ga_call"
    /\ CanLockShared(mutex_)
    /\ mutex_' = LockShared(mutex_)
    /\ result' = [result EXCEPT ![t] = <<>>]
    /\ it' = [it EXCEPT ![t] = 0]
    /\ pc' = [pc EXCEPT ![t] = "ga_loop"]
    /\ UNCHANGED <<backends_, is_healthy, arg, snapFlags, startVars>>
    /\ UNCHANGED nonRegVars

GaPush(t) ==
    /\ pc[t] = "ga_loop"
    /\ it[t] < Size
    /\ result' = [result EXCEPT ![t] = Append(@, it[t])]
    /\ it' = [it EXCEPT ![t] = @ + 1]
    /\ UNCHANGED <<regVars, pc, arg, snapFlags, startVars>>
    /\ UNCHANGED nonRegVars

\* A get_all_backends that returns without releasing its shared lock.
GaReturn_KeepLock(t) ==
    /\ pc[t] = "ga_loop"
    /\ it[t] = Size
    /\ pc' = [pc EXCEPT ![t] = "ga_ret"]
    /\ it' = [it EXCEPT ![t] = 0]
    /\ UNCHANGED <<regVars, result, arg, snapFlags, startVars>>
    /\ UNCHANGED nonRegVars

GaReturn(t) ==
    /\ pc[t] = "ga_loop"
    /\ it[t] = Size
    /\ mutex_' = UnlockShared(mutex_)
    /\ pc' = [pc EXCEPT ![t] = "ga_ret"]
    /\ it' = [it EXCEPT ![t] = 0]
    /\ UNCHANGED <<backends_, is_healthy, result, arg, snapFlags, startVars>>
    /\ UNCHANGED nonRegVars

\* ----------------------------------- BackendManager::get_healthy_backends
GhLock(t) ==
    /\ pc[t] = "gh_call"
    /\ CanLockShared(mutex_)
    /\ mutex_' = LockShared(mutex_)
    /\ result' = [result EXCEPT ![t] = <<>>]
    /\ it' = [it EXCEPT ![t] = 0]
    /\ snapFlags' = [snapFlags EXCEPT ![t] = is_healthy]
    /\ pc' = [pc EXCEPT ![t] = "gh_loop"]
    /\ UNCHANGED <<backends_, is_healthy, arg, startVars>>
    /\ UNCHANGED nonRegVars

\* One turn of the loop body: push &backend when its flag loads true.
GhVisit_NoFilter(list, i) == Append(list, i)
GhVisit_Front(list, i) == IF is_healthy[i] THEN <<i>> \o list ELSE list
GhVisit(list, i) == IF is_healthy[i] THEN Append(list, i) ELSE list

GhStep(t) ==
    /\ pc[t] = "gh_loop"
    /\ it[t] < Size
    /\ result' = [result EXCEPT ![t] = GhVisit(@, it[t])]
    /\ it' = [it EXCEPT ![t] = @ + 1]
    /\ UNCHANGED <<regVars, pc, arg, snapFlags, startVars>>
    /\ UNCHANGED nonRegVars

\* A get_healthy_backends that returns without releasing its shared lock.
GhReturn_KeepLock(t) ==
    /\ pc[t] = "gh_loop"
    /\ it[t] = Size
    /\ pc' = [pc EXCEPT ![t] = "gh_ret"]
    /\ it' = [it EXCEPT ![t] = 0]
    /\ UNCHANGED <<regVars, result, arg, snapFlags, startVars>>
    /\ UNCHANGED nonRegVars

GhReturn(t) ==
    /\ pc[t] = "gh_loop"
    /\ it[t] = Size
    /\ mutex_' = UnlockShared(mutex_)
    /\ pc' = [pc EXCEPT ![t] = "gh_ret"]
    /\ it' = [it EXCEPT ![t] = 0]
    /\ UNCHANGED <<backends_, is_healthy, result, arg, snapFlags, startVars>>
    /\ UNCHANGED nonRegVars

\* ------------------------------------------- BackendManager::update_health
UhLock(t) ==
    /\ pc[t] = "uh_call"
    /\ CanLockUnique(mutex_)
    /\ mutex_' = LockUnique(mutex_)
    /\ pc' = [pc EXCEPT ![t] = "uh_store"]
    /\ UNCHANGED <<backends_, is_healthy, it, result, arg, snapFlags, startVars>>
    /\ UNCHANGED nonRegVars

\* An update_health that erases the backend it marks unhealthy.
UhStore_Evict(t) ==
    /\ pc[t] = "uh_store"
    /\ IF arg[t].index < Size /\ ~arg[t].is_healthy
       THEN /\ backends_' = [i \in 0..(Size - 2) |->
                                IF i < arg[t].index THEN backends_[i] ELSE backends_[i + 1]]
            /\ is_healthy' = [i \in 0..(Size - 2) |->
                                IF i < arg[t].index THEN is_healthy[i] ELSE is_healthy[i + 1]]
       ELSE /\ backends_' = backends_
            /\ is_healthy' = IF arg[t].index < Size
                             THEN [is_healthy EXCEPT ![arg[t].index] = arg[t].is_healthy]
                             ELSE is_healthy
    /\ pc' = [pc EXCEPT ![t] = "uh_unlock"]
    /\ UNCHANGED <<mutex_, it, result, arg, snapFlags, startVars>>
    /\ UNCHANGED nonRegVars

\* An update that writes to the last backend when the index is out of range.
UpdateFlags_Clamp(flags, index, h) ==
    LET n == Cardinality(DOMAIN flags)
    IN  [flags EXCEPT ![IF index < n THEN index ELSE n - 1] = h]
\* if (index < backends_.size()) backends_[index].is_healthy.store(is_healthy)
UpdateFlags(flags, index, h) ==
    IF index < Cardinality(DOMAIN flags) THEN [flags EXCEPT ![index] = h] ELSE flags

UhStore(t) ==
    /\ pc[t] = "uh_store"
    /\ is_healthy' = UpdateFlags(is_healthy, arg[t].index, arg[t].is_healthy)
    /\ pc' = [pc EXCEPT ![t] = "uh_unlock"]
    /\ UNCHANGED <<backends_, mutex_, it, result, arg, snapFlags, startVars>>
    /\ UNCHANGED nonRegVars

UhUnlock(t) ==
    /\ pc[t] = "uh_unlock"
    /\ mutex_' = UnlockUnique(mutex_)
    /\ pc' = [pc EXCEPT ![t] = "uh_ret"]
    /\ arg' = [arg EXCEPT ![t] = NoArg]
    /\ UNCHANGED <<backends_, is_healthy, it, result, snapFlags, startVars>>
    /\ UNCHANGED nonRegVars

\* -------------------------------------------- BackendManager::backend_count
BcLock(t) ==
    /\ pc[t] = "bc_call"
    /\ CanLockShared(mutex_)
    /\ mutex_' = LockShared(mutex_)
    /\ pc' = [pc EXCEPT ![t] = "bc_body"]
    /\ UNCHANGED <<backends_, is_healthy, it, result, arg, snapFlags, startVars>>
    /\ UNCHANGED nonRegVars

BcReturn(t) ==
    /\ pc[t] = "bc_body"
    /\ result' = [result EXCEPT ![t] = <<Size>>]
    /\ mutex_' = UnlockShared(mutex_)
    /\ pc' = [pc EXCEPT ![t] = "bc_ret"]
    /\ UNCHANGED <<backends_, is_healthy, it, arg, snapFlags, startVars>>
    /\ UNCHANGED nonRegVars

RegistryStep(t) ==
    \/ GaLock(t) \/ GaPush(t) \/ GaReturn(t)
    \/ GhLock(t) \/ GhStep(t) \/ GhReturn(t)
    \/ UhLock(t) \/ UhStore(t) \/ UhUnlock(t)
    \/ BcLock(t) \/ BcReturn(t)

\* --------------------------------------------------------- RoundRobinPolicy
\* std::expected<BackendServer*, std::string>
Ok(b) == [ok |-> TRUE, backend |-> b, error |-> ""]
Err(msg) == [ok |-> FALSE, backend |-> -1, error |-> msg]
NoSel == Err("")

\* counter_.fetch_add(1): the value stored; the value returned is the old one.
FetchAdd_NoIncrement(c) == c
FetchAdd_Saturating(c) == IF c = CounterMod - 1 THEN c ELSE c + 1
FetchAdd(c) == (c + 1) % CounterMod

\* counter_.store(0)
ResetValue_Keep(c) == c
ResetValue(c) == 0

\* select, lines 23-25: the empty list returns the error before the counter
\* is touched.
SelCheck_IncrementFirst(t) ==
    /\ pc[t] = "sel_check"
    /\ counter_' = FetchAdd(counter_)
    /\ IF cand[t] = <<>>
       THEN /\ sel' = [sel EXCEPT ![t] = Err(NoBackendsMsg)]
            /\ pc' = [pc EXCEPT ![t] = "sel_ret"]
       ELSE /\ sel' = sel
            /\ pc' = [pc EXCEPT ![t] = "sel_fetch"]
    /\ UNCHANGED <<regVars, callVars, cand, hist, reqVars, hcVars, envVars, startVars>>

SelCheck(t) ==
    /\ pc[t] = "sel_check"
    /\ IF cand[t] = <<>>
       THEN /\ sel' = [sel EXCEPT ![t] = Err(NoBackendsMsg)]
            /\ pc' = [pc EXCEPT ![t] = "sel_ret"]
       ELSE /\ sel' = sel
            /\ pc' = [pc EXCEPT ![t] = "sel_fetch"]
    /\ UNCHANGED <<regVars, callVars, counter_, cand, hist, reqVars, hcVars, envVars, startVars>>

\* select, lines 28-29: index = counter_.fetch_add(1) % backends.size();
\* return backends[index].  The fetch_add is one atomic step; index and the
\* returned pointer are local to the calling thread.
SelIndex_Position(list, old) == old % Len(list)
SelIndex_AfterIncrement(list, old) == list[((old + 1) % Len(list)) + 1]
SelIndex(list, old) == list[(old % Len(list)) + 1]

\* The step without its effect on hist, which each specification adds.
SelFetch(t) ==
    /\ pc[t] = "sel_fetch"
    /\ counter_' = FetchAdd(counter_)
    /\ sel' = [sel EXCEPT ![t] = Ok(SelIndex(cand[t], counter_))]
    /\ pc' = [pc EXCEPT ![t] = "sel_ret"]
    /\ UNCHANGED <<regVars, callVars, cand, reqVars, hcVars, envVars, startVars>>

\* ------------------------------------------------------ history of selects
\* tickets: the counter values the successful selects obtained, in the order
\*          of their fetch_add, since construction (dropped at a reset);
\* list, chosen: while every successful select so far was given the same
\*          list (uniform) and no reset happened, that list and the backends
\*          returned, in order;
\* pending, firstAfter: a reset happened and no select since / the list and
\*          the backend of the first select after the latest reset;
\* calls:   the number of calls of select so far;
\* prev, last: the two latest successful selects since construction or the
\*          latest reset, each with its counter value, list and backend.
\* lines:   the log lines of the health monitor's latest pass over a backend;
\* down, up: the ports whose latest state-change line reads HEALTHY ->
\*          UNHEALTHY / UNHEALTHY -> HEALTHY.
\* A specification records the fields its properties are about.
EmptyHist ==
    [noReset |-> TRUE, tickets |-> <<>>, uniform |-> TRUE, list |-> <<>>,
     chosen |-> <<>>, pending |-> FALSE, firstAfter |-> <<>>,
     calls |-> 0, prev |-> <<>>, last |-> <<>>,
     lines |-> <<>>, down |-> {}, up |-> {}]

Record(h, ticket, list, b) ==
    LET first == h.tickets = <<>>
        uni == h.noReset /\ h.uniform /\ (first \/ h.list = list)
    IN  [noReset |-> h.noReset,
         tickets |-> IF h.noReset THEN Append(h.tickets, ticket) ELSE <<>>,
         uniform |-> uni,
         list |-> IF uni THEN list ELSE <<>>,
         chosen |-> IF uni THEN Append(h.chosen, b) ELSE <<>>,
         pending |-> FALSE,
         firstAfter |-> IF h.pending THEN <<[list |-> list, chosen |-> b]>>
                        ELSE h.firstAfter,
         calls |-> h.calls, prev |-> h.prev, last |-> h.last,
         lines |-> h.lines, down |-> h.down, up |-> h.up]

\* The select that obtained ticket becomes the latest one.
RecordTurn(h, ticket, list, b) ==
    [h EXCEPT !.prev = h.last,
              !.last = <<[ticket |-> ticket, list |-> list, chosen |-> b]>>]

RecordReset(h) ==
    [noReset |-> FALSE, tickets |-> <<>>, uniform |-> FALSE, list |-> <<>>,
     chosen |-> <<>>, pending |-> TRUE, firstAfter |-> <<>>,
     calls |-> h.calls, prev |-> <<>>, last |-> <<>>,
     lines |-> h.lines, down |-> h.down, up |-> h.up]

\* ------------------------------------------------------------------------
\* Initial states
\* ------------------------------------------------------------------------
NoResp == [status |-> 0, body |-> ""]

\* What the handler's client.Get / client.Post can come back with: a response
\* (status, header entries, body), no response (connection failure or
\* timeout), or an exception.
FwdResponse(status, headers, body) ==
    [kind |-> "response", status |-> status, headers |-> headers, body |-> body]
FwdNoResponse == [kind |-> "null", status |-> 0, headers |-> <<>>, body |-> ""]
FwdException == [kind |-> "exception", status |-> 0, headers |-> <<>>, body |-> ""]
NoBackendRes == [kind |-> "none", status |-> 0, headers |-> <<>>, body |-> ""]

\* An HTTP request: method, path, header entries and body.
Request(method, path, headers, body) ==
    [method |-> method, path |-> path, headers |-> headers, body |-> body]
NoReq == Request("", "", <<>>, "")

InitThreads ==
    /\ pc = [t \in Threads |-> "idle"]
    /\ it = [t \in Threads |-> 0]
    /\ result = [t \in Threads |-> <<>>]
    /\ arg = [t \in Threads |-> NoArg]
    /\ cand = [t \in Threads |-> <<>>]
    /\ sel = [t \in Threads |-> NoSel]
    /\ conn = [t \in Threads |-> <<>>]
    /\ resp = [t \in Threads |-> NoResp]
    /\ resp_headers = [t \in Threads |-> <<>>]
    /\ backend_res = [t \in Threads |-> NoBackendRes]
    /\ req = [t \in Threads |-> NoReq]
    /\ sent = [t \in Threads |-> NoReq]

\* make_shared<BackendManager>(config.backends): maxN bounds the number of
\* configured backends (ConfigLoader rejects an empty list).
\* A registry whose backends start unhealthy, waiting for their first probe.
InitRegistry_StartDown(maxN) ==
    /\ backends_ \in {Config(n) : n \in 1..maxN}
    /\ is_healthy = [i \in DOMAIN backends_ |-> FALSE]
    /\ mutex_ = [shared |-> 0, unique |-> FALSE]
    /\ snapFlags = [t \in Threads |-> is_healthy]

InitRegistry(maxN) ==
    /\ backends_ \in {Config(n) : n \in 1..maxN}
    /\ is_healthy = [i \in DOMAIN backends_ |-> TRUE]
    /\ mutex_ = [shared |-> 0, unique |-> FALSE]
    /\ snapFlags = [t \in Threads |-> is_healthy]

\* What a probe's client.Get can come back with: a response with a status,
\* no response (connection failure or timeout), or an exception.
ProbeResponse(status) == [kind |-> "response", status |-> status]
ProbeNoResponse == [kind |-> "null", status |-> 0]
ProbeException == [kind |-> "exception", status |-> 0]
NoProbe == [kind |-> "none", status |-> 0]

\* The threads start() can launch, and one that was not launched yet.
LoopIds == 1..MaxStarts
NoLoop == [pos |-> "none", i |-> 0, stop |-> FALSE]

InitPolicy ==
    /\ counter_ = 0
    /\ hist = EmptyHist

\* ------------------------------------------------------------------------
\* ConfigLoader.  json::parse is the library's: the file's content is either
\* no JSON or a document, given by the sections it has, the number of
\* entries of "backends", and the members of "health_check", each absent or
\* an integer literal.
\* ------------------------------------------------------------------------
IntMod == 2 ^ IntBits

\* A member read into an int: json's integer (64 bits) converted to int keeps
\* the low IntBits bits.
ToInt(n) == ((n + IntMod \div 2) % IntMod) - IntMod \div 2

Absent == [has |-> FALSE, v |-> 0]
Member(n) == [has |-> TRUE, v |-> n]

\* hc.value(key, default_value) read into an int field
Value(m, default_value) == IF m.has THEN ToInt(m.v) ELSE default_value

Sections == {"load_balancer", "backends", "health_check"}
NotJson == [valid |-> FALSE, sections |-> {}, backends |-> 0,
            interval_seconds |-> Absent, timeout_seconds |-> Absent]

\* The integer literals a health_check member is drawn from: inside the range
\* of int and just outside it on both sides.
NumLits == {1 - IntMod, -1, 0, 1, IntMod}

Contents ==
    {NotJson} \cup
    [valid : {TRUE}, sections : SUBSET Sections, backends : 0..SysBackends,
     interval_seconds : {Absent} \cup {Member(n) : n \in NumLits},
     timeout_seconds : {Absent} \cup {Member(n) : n \in NumLits}]

\* search_paths: config_path, "../" + config_path, "../../" + config_path
SearchPaths == 1..3

\* std::expected<Config, std::string>; of a Config the number of backends
\* and the health_check fields are kept.
Unexpected(msg) == [has_value |-> FALSE, error |-> msg, backends |-> 0,
                    interval_seconds |-> 0, timeout_seconds |-> 0]
Expected(config) == [has_value |-> TRUE, error |-> "", backends |-> config.backends,
                     interval_seconds |-> config.interval_seconds,
                     timeout_seconds |-> config.timeout_seconds]
NoResult == Unexpected("")

validate_config(config) ==
    /\ config.backends # 0
    /\ config.interval_seconds > 0
    /\ config.timeout_seconds > 0

parse_config(content) ==
    IF ~content.valid THEN Unexpected("JSON parsing error")
    ELSE IF "load_balancer" \notin content.sections
    THEN Unexpected("Missing 'load_balancer' section")
    ELSE IF "backends" \notin content.sections
    THEN Unexpected("Missing 'backends' section")
    ELSE IF "health_check" \notin content.sections
    THEN Unexpected("Missing 'health_check' section")
    ELSE LET config == [backends |-> content.backends,
                        interval_seconds |-> Value(content.interval_seconds, 1),
                        timeout_seconds |-> Value(content.timeout_seconds, 1)]
         IN  IF ~validate_config(config)
             THEN Unexpected("Configuration validation failed")
             ELSE Expected(config)

\* ConfigLoader::load: the first search path that opens is read and parsed.
load(file) ==
    IF file.paths = {} THEN Unexpected("Failed to open config file")
    ELSE parse_config(file.content)

\* No thread started yet, the given file, and what load returned.
Startup(file, res) ==
    [loops |-> [k \in LoopIds |-> NoLoop], health_check_thread_ |-> 0,
     start_pc |-> [pc |-> "idle", temp |-> 0], config_file |-> file, config_result |-> res]

InitChecker ==
    /\ hc_backends = <<>>
    /\ hc_i = 0
    /\ was_healthy = TRUE
    /\ probe_ok = TRUE
    /\ probe_res = NoProbe
    /\ stop_requested = FALSE

\* The process up and serving: the configuration was loaded.
InitHealthChecker ==
    /\ InitChecker
    /\ main_pc = "serving"
    /\ startup = Startup([paths |-> {1}, content |-> NotJson], NoResult)

\* ------------------------------------------------------------------------
\* Registry-level specification: two threads call the four public
\* operations of BackendManager with arbitrary arguments, concurrently.
\* ------------------------------------------------------------------------
RegInit ==
    /\ InitRegistry(MaxBackends) /\ InitThreads /\ InitPolicy /\ InitHealthChecker
    /\ up = [i \in DOMAIN backends_ |-> TRUE]

CallGetAll(t) ==
    /\ pc[t] = "idle"
    /\ pc' = [pc EXCEPT ![t] = "ga_call"]
    /\ UNCHANGED <<regVars, callVars, nonRegVars, startVars>>

CallGetHealthy(t) ==
    /\ pc[t] = "idle"
    /\ pc' = [pc EXCEPT ![t] = "gh_call"]
    /\ UNCHANGED <<regVars, callVars, nonRegVars, startVars>>

\* index ranges over the valid indices and the first invalid one.
CallUpdateHealth(t) ==
    /\ pc[t] = "idle"
    /\ \E index \in 0..Size, h \in BOOLEAN :
          arg' = [arg EXCEPT ![t] = [index |-> index, is_healthy |-> h]]
    /\ pc' = [pc EXCEPT ![t] = "uh_call"]
    /\ UNCHANGED <<regVars, it, result, snapFlags, nonRegVars, startVars>>

CallCount(t) ==
    /\ pc[t] = "idle"
    /\ pc' = [pc EXCEPT ![t] = "bc_call"]
    /\ UNCHANGED <<regVars, callVars, nonRegVars, startVars>>

\* The caller drops what the call returned.
CallerReturn(t) ==
    /\ pc[t] \in {"ga_ret", "gh_ret", "uh_ret", "bc_ret"}
    /\ pc' = [pc EXCEPT ![t] = "idle"]
    /\ result' = [result EXCEPT ![t] = <<>>]
    /\ snapFlags' = [snapFlags EXCEPT ![t] = [i \in Indices |-> TRUE]]
    /\ UNCHANGED <<regVars, it, arg, nonRegVars, startVars>>

RegNext ==
    \E t \in Workers :
        \/ CallGetAll(t) \/ CallGetHealthy(t) \/ CallUpdateHealth(t) \/ CallCount(t)
        \/ RegistryStep(t)
        \/ CallerReturn(t)

RegSpec == RegInit /\ [][RegNext]_vars

\* ------------------------------------------------------------------------
\* Policy-level specification: two threads call select (on any ordered
\* sub-list of the registry, the empty one included) and reset on one
\* RoundRobinPolicy, concurrently.
\* ------------------------------------------------------------------------
CandidateLists == {HealthyUpTo(f, Size) : f \in [Indices -> BOOLEAN]}

PolInit == RegInit

CallSelect(t) ==
    /\ pc[t] = "idle"
    /\ counter_ < MaxSelects
    /\ \E list \in CandidateLists : cand' = [cand EXCEPT ![t] = list]
    /\ pc' = [pc EXCEPT ![t] = "sel_check"]
    /\ UNCHANGED <<regVars, callVars, counter_, sel, hist, reqVars, hcVars, envVars, startVars>>

PolCheck(t) == SelCheck(t)

PolFetch(t) ==
    /\ SelFetch(t)
    /\ hist' = Record(hist, counter_, cand[t], sel'[t].backend)

CallReset(t) ==
    /\ pc[t] = "idle"
    /\ counter_' = ResetValue(counter_)
    /\ hist' = RecordReset(hist)
    /\ UNCHANGED <<regVars, pc, callVars, cand, sel, reqVars, hcVars, envVars, startVars>>

SelectReturn(t) ==
    /\ pc[t] = "sel_ret"
    /\ pc' = [pc EXCEPT ![t] = "idle"]
    /\ cand' = [cand EXCEPT ![t] = <<>>]
    /\ sel' = [sel EXCEPT ![t] = NoSel]
    /\ UNCHANGED <<regVars, callVars, counter_, hist, reqVars, hcVars, envVars, startVars>>

PolNext ==
    \E t \in Workers :
        \/ CallSelect(t) \/ PolCheck(t) \/ PolFetch(t) \/ CallReset(t) \/ SelectReturn(t)

PolSpec == PolInit /\ [][PolNext]_vars

\* ------------------------------------------------------------------------
\* The policy over a long run and under churn: the counter has any of the
\* values WrapStarts when the observation begins (the policy has served that
\* many selects), and two threads call select, each call on whatever ordered
\* sub-list of the registry is healthy at that moment, and reset.
\* ------------------------------------------------------------------------
WrapStarts == {0, 1, CounterMod - 2, CounterMod - 1}

RotInit ==
    /\ InitRegistry(MaxBackends) /\ InitThreads /\ InitHealthChecker
    /\ counter_ \in WrapStarts
    /\ hist = EmptyHist
    /\ up = [i \in DOMAIN backends_ |-> TRUE]

RotCall(t) ==
    /\ pc[t] = "idle"
    /\ hist.calls < MaxTurns
    /\ \E list \in CandidateLists : cand' = [cand EXCEPT ![t] = list]
    /\ hist' = [hist EXCEPT !.calls = @ + 1]
    /\ pc' = [pc EXCEPT ![t] = "sel_check"]
    /\ UNCHANGED <<regVars, callVars, counter_, sel, reqVars, hcVars, envVars, startVars>>

RotFetch(t) ==
    /\ SelFetch(t)
    /\ hist' = RecordTurn(hist, counter_, cand[t], sel'[t].backend)

RotNext ==
    \E t \in Workers :
        \/ RotCall(t) \/ SelCheck(t) \/ RotFetch(t) \/ CallReset(t) \/ SelectReturn(t)

RotSpec == RotInit /\ [][RotNext]_vars

\* ------------------------------------------------------------------------
\* ResponseInjector: bodies and content types are strings
\* ------------------------------------------------------------------------
\* ::tolower on the letters A-Z; every other character is left as it is.
LowerOf ==
    ("A" :> "a") @@ ("B" :> "b") @@ ("C" :> "c") @@ ("D" :> "d") @@ ("E" :> "e") @@ ("F" :> "f") @@
    ("G" :> "g") @@ ("H" :> "h") @@ ("I" :> "i") @@ ("J" :> "j") @@ ("K" :> "k") @@ ("L" :> "l") @@
    ("M" :> "m") @@ ("N" :> "n") @@ ("O" :> "o") @@ ("P" :> "p") @@ ("Q" :> "q") @@ ("R" :> "r") @@
    ("S" :> "s") @@ ("T" :> "t") @@ ("U" :> "u") @@ ("V" :> "v") @@ ("W" :> "w") @@ ("X" :> "x") @@
    ("Y" :> "y") @@ ("Z" :> "z")

\* The first position at or after i where sub occurs in str, 0 when none.
RECURSIVE FindFrom(_, _, _)
FindFrom(str, sub, i) ==
    IF i + Len(sub) - 1 > Len(str) THEN 0
    ELSE IF SubSeq(str, i, i + Len(sub) - 1) = sub THEN i
    ELSE FindFrom(str, sub, i + 1)

Find(str, sub) == FindFrom(str, sub, 1)

\* ::tolower on one character, and std::transform over a string.
ToLowerChar(ch) == IF ch \in DOMAIN LowerOf THEN LowerOf[ch] ELSE ch

RECURSIVE ToLower(_)
ToLower(str) ==
    IF str = "" THEN ""
    ELSE ToLowerChar(SubSeq(str, 1, 1)) \o ToLower(SubSeq(str, 2, Len(str)))

\* get_content_type_main: the part before the first ';', lower-cased.
GetContentTypeMain(content_type) ==
    LET semicolon_pos == Find(content_type, ";")
    IN  ToLower(IF semicolon_pos # 0
                THEN SubSeq(content_type, 1, semicolon_pos - 1)
                ELSE content_type)

\* inject_text
InjectText(body, port) ==
    body \o "\n[Served by backend server on port " \o ToString(port) \o "]"

\* An inject_html that looks for the tag in lower case only.
InjectHtml_CaseSensitive(body, port) ==
    LET comment == "<!-- Served by backend server on port " \o ToString(port) \o " -->"
        pos == Find(body, "</body>")
    IN  IF pos # 0
        THEN SubSeq(body, 1, pos - 1) \o comment \o "\n" \o SubSeq(body, pos, Len(body))
        ELSE body \o "\n" \o comment

\* inject_html: the comment and a newline before the first </body> in any
\* letter case, or a newline and the comment at the end.
InjectHtml(body, port) ==
    LET comment == "<!-- Served by backend server on port " \o ToString(port) \o " -->"
        pos == Find(ToLower(body), "</body>")
    IN  IF pos # 0
        THEN SubSeq(body, 1, pos - 1) \o comment \o "\n" \o SubSeq(body, pos, Len(body))
        ELSE body \o "\n" \o comment

\* nlohmann::json on documents of objects, arrays, strings without escapes,
\* integers and the three literals, with keys of letters, digits and '_'.
\* The characters of the keys of the model's documents, in code order.
KeyChars == "0123456789ABCDEFGHIJKLMNOPQRSTUVWXYZ_abcdefghijklmnopqrstuvwxyz"

\* std::string::substr: the characters from i to j that the string has.
Slice(str, i, j) == SubSeq(str, i, IF j > Len(str) THEN Len(str) ELSE j)
CharAt(str, i) == Slice(str, i, i)
CharCode(ch) == Find(KeyChars, ch)

\* std::less<std::string>: the order of the keys of a json object (std::map).
RECURSIVE StrLess(_, _)
StrLess(a, b) ==
    IF b = "" THEN FALSE
    ELSE IF a = "" THEN TRUE
    ELSE LET ca == CharCode(CharAt(a, 1))
             cb == CharCode(CharAt(b, 1))
         IN  IF ca # cb THEN ca < cb
             ELSE StrLess(SubSeq(a, 2, Len(a)), SubSeq(b, 2, Len(b)))

\* A json value: its type, its text (string, number, literal) and its parts
\* (an array's elements, an object's <<key, value>> members in key order).
JsonString(text) == [type |-> "string", text |-> text, parts |-> <<>>]
JsonNumber(text) == [type |-> "number", text |-> text, parts |-> <<>>]
JsonLiteral(text) == [type |-> "literal", text |-> text, parts |-> <<>>]
JsonArray(items) == [type |-> "array", text |-> "", parts |-> items]
JsonObject(members) == [type |-> "object", text |-> "", parts |-> members]

\* object[key] = value: the member of that key is replaced, a new key goes to
\* its place in key order.
Put(members, key, value) ==
    SelectSeq(members, LAMBDA m : StrLess(m[1], key))
    \o << <<key, value>> >>
    \o SelectSeq(members, LAMBDA m : StrLess(key, m[1]))

Digits == {"0", "1", "2", "3", "4", "5", "6", "7", "8", "9"}
WhiteSpace == {" ", "\n", "\t", "\r"}

\* What a parsing step gives: the value and the position after it, or failure
\* (json::parse_error).
Parsed(value, pos) == [ok |-> TRUE, value |-> value, pos |-> pos]
ParseError == [ok |-> FALSE, value |-> JsonLiteral("null"), pos |-> 0]

RECURSIVE SkipWs(_, _)
SkipWs(str, i) ==
    IF i <= Len(str) /\ CharAt(str, i) \in WhiteSpace THEN SkipWs(str, i + 1) ELSE i

RECURSIVE SkipDigits(_, _)
SkipDigits(str, i) ==
    IF i <= Len(str) /\ CharAt(str, i) \in Digits THEN SkipDigits(str, i + 1) ELSE i

\* "..." starting at i.
ParseString(str, i) ==
    LET close == FindFrom(str, "\"", i + 1)
    IN  IF CharAt(str, i) # "\"" \/ close = 0 THEN ParseError
        ELSE Parsed(JsonString(SubSeq(str, i + 1, close - 1)), close + 1)

\* An integer starting at i: an optional minus, then 0 or a digit sequence
\* that does not start with 0.
ParseNumber(str, i) ==
    LET first == IF CharAt(str, i) = "-" THEN i + 1 ELSE i
        end == SkipDigits(str, first)
    IN  IF end = first \/ (CharAt(str, first) = "0" /\ end > first + 1) THEN ParseError
        ELSE Parsed(JsonNumber(SubSeq(str, i, end - 1)), end)

ParseLiteral(str, i) ==
    CASE Slice(str, i, i + 3) = "true" -> Parsed(JsonLiteral("true"), i + 4)
      [] Slice(str, i, i + 3) = "null" -> Parsed(JsonLiteral("null"), i + 4)
      [] Slice(str, i, i + 4) = "false" -> Parsed(JsonLiteral("false"), i + 5)
      [] OTHER -> ParseError

RECURSIVE ParseValue(_, _)
RECURSIVE ParseMembers(_, _, _)
RECURSIVE ParseItems(_, _, _)

\* The value that starts at i.
ParseValue(str, i) ==
    LET ch == CharAt(str, i)
    IN  CASE ch = "{" ->
                IF CharAt(str, SkipWs(str, i + 1)) = "}"
                THEN Parsed(JsonObject(<<>>), SkipWs(str, i + 1) + 1)
                ELSE ParseMembers(str, SkipWs(str, i + 1), <<>>)
          [] ch = "[" ->
                IF CharAt(str, SkipWs(str, i + 1)) = "]"
                THEN Parsed(JsonArray(<<>>), SkipWs(str, i + 1) + 1)
                ELSE ParseItems(str, SkipWs(str, i + 1), <<>>)
          [] ch = "\"" -> ParseString(str, i)
          [] ch \in Digits \cup {"-"} -> ParseNumber(str, i)
          [] OTHER -> ParseLiteral(str, i)

\* "key" : value, then a comma and more members or the closing brace.
ParseMembers(str, i, members) ==
    LET key == ParseString(str, i)
        colon == SkipWs(str, key.pos)
        val == ParseValue(str, SkipWs(str, colon + 1))
        next == SkipWs(str, val.pos)
        all == Put(members, key.value.text, val.value)
    IN  IF ~key.ok \/ CharAt(str, colon) # ":" THEN ParseError
        ELSE IF ~val.ok THEN ParseError
        ELSE IF CharAt(str, next) = "," THEN ParseMembers(str, SkipWs(str, next + 1), all)
        ELSE IF CharAt(str, next) = "}" THEN Parsed(JsonObject(all), next + 1)
        ELSE ParseError

\* value, then a comma and more elements or the closing bracket.
ParseItems(str, i, items) ==
    LET val == ParseValue(str, i)
        next == SkipWs(str, val.pos)
        all == Append(items, val.value)
    IN  IF ~val.ok THEN ParseError
        ELSE IF CharAt(str, next) = "," THEN ParseItems(str, SkipWs(str, next + 1), all)
        ELSE IF CharAt(str, next) = "]" THEN Parsed(JsonArray(all), next + 1)
        ELSE ParseError

\* json::parse(body): one value with white space around it and nothing else.
JsonParse(body) ==
    LET val == ParseValue(body, SkipWs(body, 1))
    IN  IF val.ok /\ SkipWs(body, val.pos) = Len(body) + 1 THEN val ELSE ParseError

\* json::dump(): no white space, members in key order.
RECURSIVE JsonDump(_)
RECURSIVE DumpParts(_, _)
DumpParts(parts, keyed) ==
    IF parts = <<>> THEN ""
    ELSE (IF keyed THEN "\"" \o parts[1][1] \o "\":" \o JsonDump(parts[1][2])
          ELSE JsonDump(parts[1]))
         \o (IF Len(parts) > 1 THEN "," ELSE "")
         \o DumpParts(Tail(parts), keyed)

JsonDump(j) ==
    CASE j.type = "object" -> "{" \o DumpParts(j.parts, TRUE) \o "}"
      [] j.type = "array" -> "[" \o DumpParts(j.parts, FALSE) \o "]"
      [] j.type = "string" -> "\"" \o j.text \o "\""
      [] OTHER -> j.text

\* What a call gives: the string it returns, or an exception that leaves it.
Returned(body) == [raised |-> FALSE, body |-> body]
Raised == [raised |-> TRUE, body |-> ""]

\* j["_server"] = "backend-<port>" on an object; any other value is wrapped:
\* wrapped["data"] = j; wrapped["_server"] = ...
SetServer(j, port) ==
    LET server == JsonString("backend-" \o ToString(port))
    IN  IF j.type = "object"
        THEN JsonObject(Put(j.parts, "_server", server))
        ELSE JsonObject(Put(Put(<<>>, "data", j), "_server", server))

\* An inject_json whose parse failure leaves the function as an exception.
InjectJson_NoCatch(body, port) ==
    LET j == JsonParse(body)
    IN  IF ~j.ok THEN Raised ELSE Returned(JsonDump(SetServer(j.value, port)))

\* An inject_json that gives the body back as it is when it does not parse.
InjectJson_SkipOnError(body, port) ==
    LET j == JsonParse(body)
    IN  IF ~j.ok THEN Returned(body) ELSE Returned(JsonDump(SetServer(j.value, port)))

\* inject_json: parse, set _server, dump; a json::exception is caught and
\* the body goes through inject_text.
InjectJson(body, port) ==
    LET j == JsonParse(body)
    IN  IF ~j.ok THEN Returned(InjectText(body, port))
        ELSE Returned(JsonDump(SetServer(j.value, port)))

\* An inject that tests for "text" first.
Inject_TextFirst(body, content_type, port) ==
    LET main_type == GetContentTypeMain(content_type)
    IN  IF Find(main_type, "text") # 0 THEN Returned(InjectText(body, port))
        ELSE IF Find(main_type, "html") # 0 THEN Returned(InjectHtml(body, port))
        ELSE IF Find(main_type, "json") # 0 THEN InjectJson(body, port)
        ELSE Returned(body)

\* ResponseInjector::inject
Inject(body, content_type, port) ==
    LET main_type == GetContentTypeMain(content_type)
    IN  IF Find(main_type, "html") # 0 THEN Returned(InjectHtml(body, port))
        ELSE IF Find(main_type, "json") # 0 THEN InjectJson(body, port)
        ELSE IF Find(main_type, "text") # 0 THEN Returned(InjectText(body, port))
        ELSE Returned(body)

\* ------------------------------------------------------------------------
\* Header collections (httplib::Headers, a multimap with case-insensitive
\* keys) as sequences of <<name, value>>
\* ------------------------------------------------------------------------
HeaderValues(headers, name) ==
    SelectSeq(headers, LAMBDA h : ToLower(h[1]) = ToLower(name))

\* Response::set_header replacing the entries of that name.
SetHeader_Replace(headers, name, value) ==
    Append(SelectSeq(headers, LAMBDA h : ToLower(h[1]) # ToLower(name)), <<name, value>>)

\* Response::set_header: one more entry in the multimap; entries of the same
\* name stay.
SetHeader(headers, name, value) == Append(headers, <<name, value>>)

\* Response::set_content: the body, and Content-Type in place of any
\* Content-Type entry.
SetContent(body, content_type) ==
    [body |-> body, headers |-> << <<"Content-Type", content_type>> >>]

\* ------------------------------------------------------------------------
\* The request handler: server.Get / server.Post in main, with
\* RequestRouter::select_backend inlined at its call.
\* ------------------------------------------------------------------------
NoHealthyBody == "{\"error\": \"No healthy backends available\"}"
ConnFailedBody == "{\"error\": \"Backend connection failed\"}"
RequestFailedBody == "{\"error\": \"Backend request failed\"}"
BackendBody == "<backend body>"
BackendStatuses == {200, 500}

\* A request arrives at an idle worker, which calls router.select_backend(),
\* which calls get_healthy_backends().
StartRequest(t, rq) ==
    /\ pc[t] = "idle"
    /\ counter_ < MaxRequests
    /\ req' = [req EXCEPT ![t] = rq]
    /\ pc' = [pc EXCEPT ![t] = "gh_call"]
    /\ UNCHANGED <<regVars, callVars, polVars, hist, conn, resp, resp_headers,
                   backend_res, sent, hcVars, envVars, startVars>>

\* select_backend, lines 88-95: healthy_backends = get_healthy_backends();
\* empty returns the error, otherwise policy_.select(healthy_backends).
RtCheck(t) ==
    /\ pc[t] = "gh_ret"
    /\ cand' = [cand EXCEPT ![t] = result[t]]
    /\ result' = [result EXCEPT ![t] = <<>>]
    /\ IF result[t] = <<>>
       THEN /\ sel' = [sel EXCEPT ![t] = Err(NoBackendsMsg)]
            /\ pc' = [pc EXCEPT ![t] = "rt_ret"]
       ELSE /\ sel' = sel
            /\ pc' = [pc EXCEPT ![t] = "sel_check"]
    /\ UNCHANGED <<regVars, it, arg, snapFlags, counter_, hist, reqVars, hcVars, envVars, startVars>>

SysFetch(t) ==
    /\ SelFetch(t)
    /\ UNCHANGED hist

\* select_backend has returned (its healthy_backends is gone); the handler's
\* test of backend_result: no value answers 503.
HResult(t) ==
    /\ pc[t] \in {"rt_ret", "sel_ret"}
    /\ cand' = [cand EXCEPT ![t] = <<>>]
    /\ IF sel[t].ok
       THEN /\ resp' = resp
            /\ resp_headers' = resp_headers
            /\ pc' = [pc EXCEPT ![t] = "h_forward"]
       ELSE /\ resp' = [resp EXCEPT ![t] = [status |-> 503, body |-> NoHealthyBody]]
            /\ resp_headers' = [resp_headers EXCEPT ![t] =
                                   SetContent(NoHealthyBody, "application/json").headers]
            /\ pc' = [pc EXCEPT ![t] = "done"]
    /\ UNCHANGED <<regVars, callVars, counter_, sel, hist, conn, backend_res,
                   req, sent, hcVars, envVars, startVars>>

\* req.get_header_value(name): the first value under the name, "" when the
\* request has none.
GetHeaderValue(headers, name) ==
    LET vals == HeaderValues(headers, name)
    IN  IF vals = <<>> THEN "" ELSE vals[1][2]

\* client.Get(path): a GET of the path, with none of the caller's headers
\* and no body.
ClientGet(path) == Request("GET", path, <<>>, "")

\* client.Post(path, body, content_type): a POST of the path with the body,
\* and the content type as its one header.
ClientPost(path, body, content_type) ==
    Request("POST", path,
            IF content_type = "" THEN <<>> ELSE << <<"Content-Type", content_type>> >>,
            body)

\* A handler that replays the inbound request as it came.
ForwardedRequest_Replay(rq) == rq

\* What the handler sends to the backend for an inbound request: the GET
\* handler client.Get(req.path), the POST handler
\* client.Post(req.path, req.body, req.get_header_value("Content-Type")).
ForwardedRequest(rq) ==
    IF rq.method = "GET"
    THEN ClientGet(rq.path)
    ELSE ClientPost(rq.path, rq.body, GetHeaderValue(rq.headers, "Content-Type"))

\* httplib::Client client(backend->host, backend->port); client.Get / Post:
\* the worker opens its connection and blocks on the backend.
HConnect(t) ==
    /\ pc[t] = "h_forward"
    /\ conn' = [conn EXCEPT ![t] = Append(@, sel[t].backend)]
    /\ sent' = [sent EXCEPT ![t] = ForwardedRequest(req[t])]
    /\ pc' = [pc EXCEPT ![t] = "h_wait"]
    /\ snapFlags' = [snapFlags EXCEPT ![t] = [i \in Indices |-> TRUE]]
    /\ UNCHANGED <<regVars, it, result, arg, polVars, hist, resp, resp_headers,
                   backend_res, req, hcVars, envVars, startVars>>

\* The request the clients of the running system send.
SysRequests == {Request("GET", "/", <<>>, "")}

\* What the backends of the running system answer a forwarded request with:
\* a text body under one of BackendStatuses, nothing, or an exception.
SysResults ==
    {FwdResponse(st, << <<"Content-Type", "text/plain">> >>, BackendBody) :
        st \in BackendStatuses}
    \cup {FwdNoResponse, FwdException}

\* What the backends answer when every kind of response is of interest.
FwdStatuses == {200, 404, 500}

\* Content type ("" when the backend sends none) and body.
FwdPayloads ==
    { <<"text/plain", "ok">>,
      <<"", "ok">>,
      <<"text/html; charset=utf-8", "<body>hi</BODY>">>,
      <<"Text/HTML", "<p>hi</p>">>,
      <<"application/json", "{\"a\": 1}">>,
      <<"application/json", "{\"_server\":\"backend-8080\"}">>,
      <<"application/json", "[1]">>,
      <<"application/json", "oops">>,
      <<"application/octet-stream", "ok">>,
      <<"image/png", "">> }

\* The header entries of a backend's response: Content-Type when it has one,
\* and Content-Length unless the response came without one (chunked).
FwdHeaders(payload, with_length) ==
    (IF payload[1] # "" THEN << <<"Content-Type", payload[1]>> >> ELSE <<>>)
    \o (IF with_length
        THEN << <<"Content-Length", ToString(Len(payload[2]))>> >>
        ELSE <<>>)

FwdResults ==
    {FwdResponse(st, FwdHeaders(p, wl), p[2]) :
        st \in FwdStatuses, p \in FwdPayloads, wl \in BOOLEAN}
    \cup {FwdNoResponse, FwdException}

\* What the backends answer when the injector is of interest: status 200 and
\* every content type with every body.
InjContentTypes ==
    { "text/html",
      "text/html; charset=utf-8",
      "TEXT/HTML",
      "application/xhtml+xml",
      "application/json",
      "Application/JSON; charset=utf-8",
      "text/json",
      "text/plain",
      "text/plain; format=html",
      "application/octet-stream" }

InjBodies ==
    { "",
      "Hello World",
      "<html><body>Test</body></html>",
      "<BODY>a</BODY>b</body>",
      "<h1>Hello World</h1>",
      "{\"message\": \"Hello\", \"data\": [1, 2, 3]}",
      "{\"_server\": \"x\", \"a\": 1}",
      "{}",
      "[1, 2, 3]",
      "42",
      "{invalid json}" }

InjResults ==
    {FwdResponse(200, << <<"Content-Type", ct>> >>, body) :
        ct \in InjContentTypes, body \in InjBodies}

\* What the handler writes for what came back from the backend.  A response:
\* the content type (text/plain when the backend gave none), the injected
\* body, the backend's status and headers, and Content-Length set when the
\* body was modified.  No response and an exception (one out of inject
\* included, the call being inside the try block): 503 with their bodies.
Respond(r, port) ==
    CASE r.kind = "response" ->
            LET cts == HeaderValues(r.headers, "Content-Type")
                content_type == IF cts = <<>> THEN "text/plain" ELSE cts[1][2]
                injected == Inject(r.body, content_type, port)
                injected_body == injected.body
            IN  IF injected.raised
                THEN [status |-> 503] @@ SetContent(RequestFailedBody, "application/json")
                ELSE [status |-> r.status,
                      body |-> injected_body,
                      headers |-> IF injected_body # r.body
                                  THEN SetHeader(r.headers, "Content-Length",
                                                 ToString(Len(injected_body)))
                                  ELSE r.headers]
      [] r.kind = "null" ->
            [status |-> 503] @@ SetContent(ConnFailedBody, "application/json")
      [] OTHER ->
            [status |-> 503] @@ SetContent(RequestFailedBody, "application/json")

\* Respond as a table, worked out once for every answer and every backend
\* port of the model (@@ makes the function an explicit one).
RespondTable ==
    [x \in (SysResults \cup FwdResults \cup InjResults)
              \X {BasePort + i : i \in 0..(MaxBackends - 1)} |->
        Respond(x[1], x[2])] @@ <<>>

ResponseTo(r, port) == RespondTable[<<r, port>>]

\* A handler that, when the backend gives no response, tries the next
\* backend.
HReceive_RetryNext(t, r) ==
    /\ pc[t] = "h_wait"
    /\ IF r.kind = "null"
       THEN /\ sel' = [sel EXCEPT ![t] = Ok((sel[t].backend + 1) % Size)]
            /\ pc' = [pc EXCEPT ![t] = "h_forward"]
            /\ UNCHANGED <<backend_res, resp, resp_headers, is_healthy, startVars>>
       ELSE /\ backend_res' = [backend_res EXCEPT ![t] = r]
            /\ LET out == ResponseTo(r, backends_[sel[t].backend].port)
               IN  /\ resp' = [resp EXCEPT ![t] = [status |-> out.status, body |-> out.body]]
                   /\ resp_headers' = [resp_headers EXCEPT ![t] = out.headers]
            /\ pc' = [pc EXCEPT ![t] = "done"]
            /\ UNCHANGED <<sel, is_healthy, startVars>>
    /\ UNCHANGED <<backends_, mutex_, callVars, counter_, cand, hist, conn, req, sent, hcVars, envVars,
                   startVars>>

\* A handler that marks the backend unhealthy when it gives no response.
HReceive_MarkUnhealthy(t, r) ==
    /\ pc[t] = "h_wait"
    /\ backend_res' = [backend_res EXCEPT ![t] = r]
    /\ LET out == ResponseTo(r, backends_[sel[t].backend].port)
       IN  /\ resp' = [resp EXCEPT ![t] = [status |-> out.status, body |-> out.body]]
           /\ resp_headers' = [resp_headers EXCEPT ![t] = out.headers]
    /\ is_healthy' = IF r.kind = "null"
                     THEN [is_healthy EXCEPT ![sel[t].backend] = FALSE]
                     ELSE is_healthy
    /\ pc' = [pc EXCEPT ![t] = "done"]
    /\ UNCHANGED <<backends_, mutex_, callVars, polVars, hist, conn, req, sent, hcVars, envVars,
                   startVars>>

\* auto backend_res = client.Get(req.path) / client.Post(...) came back with
\* r, and the handler wrote its response.
HReceive(t, r) ==
    /\ pc[t] = "h_wait"
    /\ backend_res' = [backend_res EXCEPT ![t] = r]
    /\ LET out == ResponseTo(r, backends_[sel[t].backend].port)
       IN  /\ resp' = [resp EXCEPT ![t] = [status |-> out.status, body |-> out.body]]
           /\ resp_headers' = [resp_headers EXCEPT ![t] = out.headers]
    /\ pc' = [pc EXCEPT ![t] = "done"]
    /\ UNCHANGED <<regVars, callVars, polVars, hist, conn, req, sent, hcVars, envVars, startVars>>

\* The handler returns; its locals are gone.
HFinish(t) ==
    /\ pc[t] = "done"
    /\ pc' = [pc EXCEPT ![t] = "idle"]
    /\ sel' = [sel EXCEPT ![t] = NoSel]
    /\ conn' = [conn EXCEPT ![t] = <<>>]
    /\ resp' = [resp EXCEPT ![t] = NoResp]
    /\ resp_headers' = [resp_headers EXCEPT ![t] = <<>>]
    /\ backend_res' = [backend_res EXCEPT ![t] = NoBackendRes]
    /\ req' = [req EXCEPT ![t] = NoReq]
    /\ sent' = [sent EXCEPT ![t] = NoReq]
    /\ snapFlags' = [snapFlags EXCEPT ![t] = [i \in Indices |-> TRUE]]
    /\ UNCHANGED <<regVars, it, result, arg, counter_, cand, hist, hcVars, envVars, startVars>>

\* ------------------------------------------------------------------------
\* HealthChecker::health_check_loop, run by the thread HC
\* ------------------------------------------------------------------------
\* A while loop that never looks at the stop token.
HcTop_IgnoreStop ==
    /\ pc[HC] = "hc_top"
    /\ pc' = [pc EXCEPT ![HC] = "ga_call"]
    /\ UNCHANGED <<regVars, callVars, nonRegVars, startVars>>

\* while (!stop_token.stop_requested()) { backends = get_all_backends(); ...
HcTop ==
    /\ pc[HC] = "hc_top"
    /\ pc' = [pc EXCEPT ![HC] = IF stop_requested THEN "hc_exit" ELSE "ga_call"]
    /\ UNCHANGED <<regVars, callVars, nonRegVars, startVars>>

HcGotAll ==
    /\ pc[HC] = "ga_ret"
    /\ hc_backends' = result[HC]
    /\ result' = [result EXCEPT ![HC] = <<>>]
    /\ hc_i' = 0
    /\ pc' = [pc EXCEPT ![HC] = "hc_for"]
    /\ UNCHANGED <<regVars, it, arg, snapFlags, polVars, hist, reqVars,
                   was_healthy, probe_ok, probe_res, envVars, startVars>>

\* A for loop without the stop check.
HcFor_NoStopCheck ==
    /\ pc[HC] = "hc_for"
    /\ pc' = [pc EXCEPT ![HC] = IF hc_i < Len(hc_backends) THEN "hc_load" ELSE "hc_sleep"]
    /\ UNCHANGED <<regVars, callVars, nonRegVars, startVars>>

\* for (i = 0; i < backends.size(); ++i) { if (stop_requested) break; ...
HcFor ==
    /\ pc[HC] = "hc_for"
    /\ pc' = [pc EXCEPT ![HC] =
                 IF hc_i < Len(hc_backends) /\ ~stop_requested
                 THEN "hc_load" ELSE "hc_sleep"]
    /\ UNCHANGED <<regVars, callVars, nonRegVars, startVars>>

\* bool was_healthy = backend->is_healthy.load();   (no lock)
HcLoad ==
    /\ pc[HC] = "hc_load"
    /\ was_healthy' = is_healthy[hc_backends[hc_i + 1]]
    /\ pc' = [pc EXCEPT ![HC] = "hc_probe"]
    /\ UNCHANGED <<regVars, callVars, polVars, hist, reqVars,
                   hc_backends, hc_i, probe_ok, probe_res, envVars, startVars>>

\* check_backend_health: true exactly when a response came and its status is
\* 200; no response and an exception (caught inside) give false.
CheckBackendHealth_Any2xx(res) == res.kind = "response" /\ res.status \in 200..299
CheckBackendHealth_AnyResponse(res) == res.kind = "response"
CheckBackendHealth(res) == res.kind = "response" /\ res.status = 200

\* What backend b's process answers a probe with: its /health handler gives
\* 200, a process that is down gives no response.
BackendAnswer(b) == IF up[b] THEN ProbeResponse(200) ELSE ProbeNoResponse

\* The index update_health is called with.
UpdateIndex_First(i) == 0
UpdateIndex(i) == i

\* A probe whose exception leaves check_backend_health and the loop.
HcProbe_ExceptionEscapes(res) ==
    /\ pc[HC] = "hc_probe"
    /\ probe_res' = res
    /\ probe_ok' = CheckBackendHealth(res)
    /\ IF res.kind = "exception"
       THEN /\ arg' = arg
            /\ pc' = [pc EXCEPT ![HC] = "hc_exit"]
       ELSE /\ arg' = [arg EXCEPT ![HC] = [index |-> hc_i, is_healthy |-> probe_ok']]
            /\ pc' = [pc EXCEPT ![HC] = "uh_call"]
    /\ UNCHANGED <<regVars, it, result, snapFlags, polVars, hist, reqVars,
                   hc_backends, hc_i, was_healthy, envVars, startVars>>

\* is_healthy = check_backend_health(backend); update_health(i, is_healthy),
\* where the probe's GET came back with res.
HcProbe(res) ==
    /\ pc[HC] = "hc_probe"
    /\ probe_res' = res
    /\ probe_ok' = CheckBackendHealth(res)
    /\ arg' = [arg EXCEPT ![HC] = [index |-> UpdateIndex(hc_i), is_healthy |-> probe_ok']]
    /\ pc' = [pc EXCEPT ![HC] = "uh_call"]
    /\ UNCHANGED <<regVars, it, result, snapFlags, polVars, hist, reqVars,
                   hc_backends, hc_i, was_healthy, envVars, startVars>>

\* A line of the log: Logger::debug / info / warn / error (component, text).
LogLine(level, port, text) == [level |-> level, port |-> port, text |-> text]
StateChanges == {"state changed HEALTHY -> UNHEALTHY", "state changed UNHEALTHY -> HEALTHY"}

\* Loggers that write every result at debug level / a state-change line after
\* every failing probe.
LogLines_AllDebug(was, ok, port) ==
    << LogLine("debug", port, IF ok THEN "HEALTHY" ELSE "UNHEALTHY") >>
      \o (IF was /\ ~ok THEN << LogLine("warn", port, "state changed HEALTHY -> UNHEALTHY") >>
          ELSE IF ~was /\ ok
               THEN << LogLine("info", port, "state changed UNHEALTHY -> HEALTHY") >>
          ELSE << >>)
LogLines_EveryFailure(was, ok, port) ==
    << IF ok THEN LogLine("debug", port, "HEALTHY") ELSE LogLine("error", port, "UNHEALTHY") >>
      \o (IF ~ok THEN << LogLine("warn", port, "state changed HEALTHY -> UNHEALTHY") >>
          ELSE IF ~was
               THEN << LogLine("info", port, "state changed UNHEALTHY -> HEALTHY") >>
          ELSE << >>)

\* The lines the loop body writes after update_health returned, lines 424-440:
\* the result (debug when healthy, error when not), then the state change
\* (warn for HEALTHY -> UNHEALTHY, info for UNHEALTHY -> HEALTHY), if any.
LogLines(was, ok, port) ==
    << IF ok THEN LogLine("debug", port, "HEALTHY") ELSE LogLine("error", port, "UNHEALTHY") >>
      \o (IF was /\ ~ok THEN << LogLine("warn", port, "state changed HEALTHY -> UNHEALTHY") >>
          ELSE IF ~was /\ ok
               THEN << LogLine("info", port, "state changed UNHEALTHY -> HEALTHY") >>
          ELSE << >>)

\* The ports with a line of the given text among lines.
PortsWith(lines, text) == {lines[k].port : k \in {j \in 1..Len(lines) : lines[j].text = text}}

\* The pass's lines become the latest ones.
Logged(h, lines) ==
    LET downs == PortsWith(lines, "state changed HEALTHY -> UNHEALTHY")
        ups == PortsWith(lines, "state changed UNHEALTHY -> HEALTHY")
    IN  [h EXCEPT !.lines = lines,
                  !.down = (h.down \ ups) \cup downs,
                  !.up = (h.up \ downs) \cup ups]

\* A loop body that ends without ++i.
HcAdvance_Repeat ==
    /\ pc[HC] = "uh_ret"
    /\ was_healthy' = TRUE
    /\ probe_ok' = TRUE
    /\ probe_res' = NoProbe
    /\ pc' = [pc EXCEPT ![HC] = "hc_for"]
    /\ UNCHANGED <<regVars, callVars, polVars, reqVars, hc_backends, hc_i, envVars, startVars>>

\* The end of the loop body after update_health returned: the log lines are
\* written, then ++i.  The step without its effect on hist, which each
\* specification adds.
HcAdvance ==
    /\ pc[HC] = "uh_ret"
    /\ hc_i' = hc_i + 1
    /\ was_healthy' = TRUE
    /\ probe_ok' = TRUE
    /\ probe_res' = NoProbe
    /\ pc' = [pc EXCEPT ![HC] = "hc_for"]
    /\ UNCHANGED <<regVars, callVars, polVars, reqVars, hc_backends, envVars, startVars>>

HcLog ==
    /\ HcAdvance
    /\ UNCHANGED hist

\* The same step with its lines on record.
MonLog ==
    /\ HcAdvance
    /\ hist' = Logged(hist, LogLines(was_healthy, probe_ok,
                                     backends_[hc_backends[hc_i + 1]].port))

\* std::this_thread::sleep_for(interval); the loop body's locals are gone.
HcSleep ==
    /\ pc[HC] = "hc_sleep"
    /\ hc_backends' = <<>>
    /\ hc_i' = 0
    /\ pc' = [pc EXCEPT ![HC] = "hc_top"]
    /\ UNCHANGED <<regVars, callVars, polVars, hist, reqVars,
                   was_healthy, probe_ok, probe_res, envVars, startVars>>

\* The steps of the loop other than the probe and the log lines.
HcCore ==
    \/ HcTop \/ HcGotAll \/ HcFor \/ HcLoad \/ HcSleep
    \/ GaLock(HC) \/ GaPush(HC) \/ GaReturn(HC)
    \/ UhLock(HC) \/ UhStore(HC) \/ UhUnlock(HC)

\* The steps of the loop other than the probe.
HcStep ==
    \/ HcCore
    \/ HcLog

\* A probe whose answer is whatever the backend gives at that moment: its
\* /health handler's 200, or nothing.
ProbeAny == \E res \in {ProbeResponse(200), ProbeNoResponse} : HcProbe(res)

\* A probe of a backend whose state the environment holds in up.
ProbeEnv ==
    /\ pc[HC] = "hc_probe"
    /\ HcProbe(BackendAnswer(hc_backends[hc_i + 1]))

\* HealthChecker::stop: health_check_thread_.request_stop()
Stop ==
    /\ ~stop_requested
    /\ stop_requested' = TRUE
    /\ UNCHANGED <<regVars, pc, callVars, polVars, hist, reqVars, hcVars, main_pc, up, startVars>>

\* The environment: a backend process dies or comes back.
BackendDown(i) ==
    /\ up[i]
    /\ up' = [up EXCEPT ![i] = FALSE]
    /\ UNCHANGED <<regVars, pc, callVars, polVars, hist, reqVars, hcVars,
                   stop_requested, main_pc, startVars>>

BackendUp(i) ==
    /\ ~up[i]
    /\ up' = [up EXCEPT ![i] = TRUE]
    /\ UNCHANGED <<regVars, pc, callVars, polVars, hist, reqVars, hcVars,
                   stop_requested, main_pc, startVars>>

\* ------------------------------------------------------------------------
\* main's graceful shutdown and the destructors that run when main returns
\* ------------------------------------------------------------------------
\* The shutdown flag was seen: server.stop(); health_checker.stop();
\* server_thread.join().  stop() only requests the stop, it does not join.
MainStop ==
    /\ main_pc = "serving"
    /\ stop_requested' = TRUE
    /\ main_pc' = "returning"
    /\ UNCHANGED <<regVars, pc, callVars, polVars, hist, reqVars, hcVars, up, startVars>>

\* return 0: health_checker is destroyed before backend_manager (reverse
\* order of construction); ~HealthChecker calls stop().
MainDtorStop ==
    /\ main_pc = "returning"
    /\ stop_requested' = TRUE
    /\ main_pc' = "joining"
    /\ UNCHANGED <<regVars, pc, callVars, polVars, hist, reqVars, hcVars, up, startVars>>

\* A destructor of the thread member that does not wait for the loop.
MainJoin_NoWait ==
    /\ main_pc = "joining"
    /\ main_pc' = "joined"
    /\ UNCHANGED <<regVars, pc, callVars, polVars, hist, reqVars, hcVars,
                   stop_requested, up, startVars>>

\* The members of HealthChecker are destroyed: health_check_thread_, a
\* std::jthread and the last member, first; its destructor joins, so main
\* waits here until health_check_loop has returned.
MainJoin ==
    /\ main_pc = "joining"
    /\ pc[HC] = "hc_exit"
    /\ main_pc' = "joined"
    /\ UNCHANGED <<regVars, pc, callVars, polVars, hist, reqVars, hcVars,
                   stop_requested, up, startVars>>

\* The last shared_ptr to the BackendManager goes: the registry and its
\* mutex are destroyed.
MainDestroy ==
    /\ main_pc = "joined"
    /\ main_pc' = "destroyed"
    /\ UNCHANGED <<regVars, pc, callVars, polVars, hist, reqVars, hcVars,
                   stop_requested, up, startVars>>

MainStep == MainStop \/ MainDtorStop \/ MainJoin \/ MainDestroy

\* ------------------------------------------------------------------------
\* The load balancer serving requests: the health-check thread, whose probes
\* get any answer, and two request workers.
\* ------------------------------------------------------------------------
InitRunning ==
    /\ pc = [t \in Threads |-> IF t = HC THEN "hc_top" ELSE "idle"]
    /\ it = [t \in Threads |-> 0]
    /\ result = [t \in Threads |-> <<>>]
    /\ arg = [t \in Threads |-> NoArg]
    /\ cand = [t \in Threads |-> <<>>]
    /\ sel = [t \in Threads |-> NoSel]
    /\ conn = [t \in Threads |-> <<>>]
    /\ resp = [t \in Threads |-> NoResp]
    /\ resp_headers = [t \in Threads |-> <<>>]
    /\ backend_res = [t \in Threads |-> NoBackendRes]
    /\ req = [t \in Threads |-> NoReq]
    /\ sent = [t \in Threads |-> NoReq]

Init ==
    /\ InitRegistry(SysBackends) /\ InitRunning /\ InitPolicy /\ InitHealthChecker
    /\ up = [i \in DOMAIN backends_ |-> TRUE]

WorkerStep(t) ==
    \/ \E rq \in SysRequests : StartRequest(t, rq)
    \/ GhLock(t) \/ GhStep(t) \/ GhReturn(t)
    \/ RtCheck(t) \/ SelCheck(t) \/ SysFetch(t)
    \/ HResult(t) \/ HConnect(t) \/ HFinish(t)
    \/ \E r \in SysResults : HReceive(t, r)

Next ==
    \/ \E t \in Workers : WorkerStep(t)
    \/ HcStep
    \/ ProbeAny

Spec == Init /\ [][Next]_vars

\* ------------------------------------------------------------------------
\* Forwarding alone: the request workers, every backend healthy, and backends
\* that answer with any of a range of statuses, content types, bodies and
\* header sets, with nothing, or with an exception.
\* ------------------------------------------------------------------------
FwdInit == Init

FwdStep(t) ==
    \/ \E rq \in SysRequests : StartRequest(t, rq)
    \/ GhLock(t) \/ GhStep(t) \/ GhReturn(t)
    \/ RtCheck(t) \/ SelCheck(t) \/ SysFetch(t)
    \/ HResult(t) \/ HConnect(t) \/ HFinish(t)
    \/ \E r \in FwdResults : HReceive(t, r)

FwdNext == \E t \in Workers : FwdStep(t)

FwdSpec == FwdInit /\ [][FwdNext]_vars

\* ------------------------------------------------------------------------
\* The way in: the request workers, every backend healthy, and clients that
\* send GET and POST requests with a range of paths, header sets and bodies.
\* ------------------------------------------------------------------------
InboundRequests ==
    { Request("GET", "/", <<>>, ""),
      Request("GET", "/api/items", << <<"X-Request-Id", "42">> >>, ""),
      Request("GET", "/api/items", << <<"Content-Type", "text/plain">> >>, "q"),
      Request("POST", "/", <<>>, ""),
      Request("POST", "/api/items", << <<"Content-Type", "application/json">> >>, "{\"a\": 1}"),
      Request("POST", "/api/items",
              << <<"Content-Type", "application/json">>, <<"X-Request-Id", "42">> >>,
              "{\"a\": 1}") }

ReqInit == Init

ReqStep(t) ==
    \/ \E rq \in InboundRequests : StartRequest(t, rq)
    \/ GhLock(t) \/ GhStep(t) \/ GhReturn(t)
    \/ RtCheck(t) \/ SelCheck(t) \/ SysFetch(t)
    \/ HResult(t) \/ HConnect(t) \/ HFinish(t)
    \/ \E r \in SysResults : HReceive(t, r)

ReqNext == \E t \in Workers : ReqStep(t)

ReqSpec == ReqInit /\ [][ReqNext]_vars

\* ------------------------------------------------------------------------
\* The injector at work: the request workers, every backend healthy, and
\* backends that answer 200 with any of InjContentTypes and any of InjBodies.
\* ------------------------------------------------------------------------
InjInit == Init

InjStep(t) ==
    \/ \E rq \in SysRequests : StartRequest(t, rq)
    \/ GhLock(t) \/ GhStep(t) \/ GhReturn(t)
    \/ RtCheck(t) \/ SelCheck(t) \/ SysFetch(t)
    \/ HResult(t) \/ HConnect(t) \/ HFinish(t)
    \/ \E r \in InjResults : HReceive(t, r)

InjNext == \E t \in Workers : InjStep(t)

InjSpec == InjInit /\ [][InjNext]_vars

\* ------------------------------------------------------------------------
\* The health monitor alone: the health-check thread, whose probes come
\* back with any status, with no response or with an exception, and main,
\* which shuts down at any moment.
\* ------------------------------------------------------------------------
ProbeStatuses == {200, 204, 404, 500}
ProbeOutcomes ==
    {ProbeResponse(st) : st \in ProbeStatuses} \cup {ProbeNoResponse, ProbeException}

ProbeAll == \E res \in ProbeOutcomes : HcProbe(res)

HcInit == Init

HcNext ==
    \/ HcStep
    \/ ProbeAll
    \/ MainStep

HcSpec == HcInit /\ [][HcNext]_vars

\* ------------------------------------------------------------------------
\* HealthChecker::start and stop called any number of times (up to MaxStarts
\* starts) on one HealthChecker, and the threads they launch, each running
\* health_check_loop with its own stop token.  The loop is taken in three
\* steps: the while test with get_all_backends, the for test, and one probe
\* with its update_health and log lines.
\* ------------------------------------------------------------------------
\* Everything start, stop and the loops they launch leave alone, the health
\* flags apart.
restVars == <<backends_, mutex_, pc, callVars, polVars, hist, reqVars, hcVars, envVars>>

\* start(), the right-hand side of the assignment: std::jthread(lambda)
\* launches a thread that runs health_check_loop.
StartConstruct ==
    /\ start_pc.pc = "idle"
    /\ \E k \in LoopIds :
          /\ loops[k].pos = "none"
          /\ \A j \in 1..(k - 1) : loops[j].pos # "none"
          /\ startup' = [startup EXCEPT
                  !.loops[k] = [pos |-> "top", i |-> 0, stop |-> FALSE],
                  !.start_pc = [pc |-> "assign", temp |-> k]]
    /\ UNCHANGED <<restVars, is_healthy>>

\* start(), the assignment, std::jthread::operator=(jthread&&): when the
\* member is joinable, request_stop() on the thread it owns ...
StartRequestStop ==
    /\ start_pc.pc = "assign"
    /\ startup' = [startup EXCEPT
            !.loops = IF health_check_thread_ # 0
                      THEN [loops EXCEPT ![health_check_thread_].stop = TRUE]
                      ELSE loops,
            !.start_pc.pc = "join"]
    /\ UNCHANGED <<restVars, is_healthy>>

\* ... and join() it; then the member takes over the new thread.
StartJoin ==
    /\ start_pc.pc = "join"
    /\ health_check_thread_ # 0 => loops[health_check_thread_].pos = "returned"
    /\ startup' = [startup EXCEPT
            !.health_check_thread_ = start_pc.temp,
            !.start_pc = [pc |-> "idle", temp |-> 0]]
    /\ UNCHANGED <<restVars, is_healthy>>

\* stop(): if (joinable()) request_stop()
StopCall ==
    /\ start_pc.pc = "idle"
    /\ health_check_thread_ # 0
    /\ ~loops[health_check_thread_].stop
    /\ startup' = [startup EXCEPT !.loops[health_check_thread_].stop = TRUE]
    /\ UNCHANGED <<restVars, is_healthy>>

\* while (!stop_token.stop_requested()) { backends = get_all_backends(); i = 0
LoopTop(k) ==
    /\ loops[k].pos = "top"
    /\ startup' = [startup EXCEPT
            !.loops[k].pos = IF loops[k].stop THEN "returned" ELSE "for",
            !.loops[k].i = 0]
    /\ UNCHANGED <<restVars, is_healthy>>

\* i < backends.size() and no stop requested: the probe is issued; otherwise
\* the sleep, and back to the while test.
LoopFor(k) ==
    /\ loops[k].pos = "for"
    /\ startup' = [startup EXCEPT !.loops[k].pos =
                    IF loops[k].i < Size /\ ~loops[k].stop THEN "probe" ELSE "top"]
    /\ UNCHANGED <<restVars, is_healthy>>

\* The probe comes back, update_health(i, is_healthy), the log lines, ++i.
LoopProbe(k) ==
    /\ loops[k].pos = "probe"
    /\ \E ok \in BOOLEAN : is_healthy' = UpdateFlags(is_healthy, loops[k].i, ok)
    /\ startup' = [startup EXCEPT !.loops[k].pos = "for", !.loops[k].i = @ + 1]
    /\ UNCHANGED restVars

StartInit == Init

StartNext ==
    \/ StartConstruct \/ StartRequestStop \/ StartJoin \/ StopCall
    \/ \E k \in LoopIds : LoopTop(k) \/ LoopFor(k) \/ LoopProbe(k)

StartSpec == StartInit /\ [][StartNext]_vars

\* ------------------------------------------------------------------------
\* main's start-up: the configuration is loaded from whatever the file system
\* holds, main returns 1 without a Config, and builds the registry and the
\* health checker with one.
\* ------------------------------------------------------------------------
CfgInit ==
    /\ backends_ = <<>>
    /\ is_healthy = <<>>
    /\ mutex_ = [shared |-> 0, unique |-> FALSE]
    /\ snapFlags = [t \in Threads |-> <<>>]
    /\ up = <<>>
    /\ InitThreads /\ InitPolicy /\ InitChecker
    /\ main_pc = "load"
    /\ startup \in {Startup(file, NoResult) :
                        file \in [paths : SUBSET SearchPaths, content : Contents]}

\* auto config_result = ConfigLoader::load("config.json")
MainLoad ==
    /\ main_pc = "load"
    /\ startup' = [startup EXCEPT !.config_result = load(config_file)]
    /\ main_pc' = "loaded"
    /\ UNCHANGED <<regVars, pc, callVars, polVars, hist, reqVars, hcVars,
                   stop_requested, up>>

\* if (!config_result.has_value()) return 1
MainFail ==
    /\ main_pc = "loaded"
    /\ ~config_result.has_value
    /\ main_pc' = "exit_1"
    /\ UNCHANGED <<regVars, pc, callVars, polVars, hist, reqVars, hcVars,
                   stop_requested, up, startVars>>

\* std::make_shared<BackendManager>(config.backends) and the HealthChecker
\* over it with config.health_check.
MainBuild ==
    /\ main_pc = "loaded"
    /\ config_result.has_value
    /\ backends_' = Config(config_result.backends)
    /\ is_healthy' = [i \in DOMAIN backends_' |-> TRUE]
    /\ up' \in [DOMAIN backends_' -> BOOLEAN]
    /\ main_pc' = "serving"
    /\ UNCHANGED <<mutex_, pc, callVars, polVars, hist, reqVars, hcVars,
                   stop_requested, startVars>>

CfgNext == MainLoad \/ MainFail \/ MainBuild

CfgSpec == CfgInit /\ [][CfgNext]_vars

\* ------------------------------------------------------------------------
\* The health monitor and its log: the health-check thread, whose probes come
\* back with any status, with no response or with an exception, its log
\* lines on record, and main, which shuts down at any moment.
\* ------------------------------------------------------------------------
MonInit == Init

MonNext ==
    \/ HcCore
    \/ MonLog
    \/ ProbeAll
    \/ MainStep

MonSpec == MonInit /\ [][MonNext]_vars

\* ------------------------------------------------------------------------
\* The health monitor against the backends' processes: the health-check
\* thread probing backends that die and come back, a stop request, and one
\* request worker reading the registry over and over.  The scheduler runs the
\* health-check thread again and again, hands it the lock when the lock is
\* free again and again (std::shared_mutex promises no more), and lets a
\* reader that holds the lock finish.
\* ------------------------------------------------------------------------
Reader == "w1"

LiveInit ==
    /\ InitRegistry(SysBackends) /\ InitRunning /\ InitPolicy /\ InitHealthChecker
    /\ up \in [DOMAIN backends_ -> BOOLEAN]

HcLocal ==
    \/ HcTop \/ HcGotAll \/ HcFor \/ HcLoad \/ ProbeEnv \/ HcLog \/ HcSleep
    \/ GaPush(HC) \/ GaReturn(HC) \/ UhStore(HC) \/ UhUnlock(HC)

ReaderStep ==
    \/ CallGetHealthy(Reader)
    \/ GhLock(Reader) \/ GhStep(Reader) \/ GhReturn(Reader)
    \/ CallerReturn(Reader)

LiveNext ==
    \/ HcStep
    \/ ProbeEnv
    \/ Stop
    \/ \E i \in Indices : BackendDown(i) \/ BackendUp(i)
    \/ ReaderStep

LiveSpec ==
    /\ LiveInit
    /\ [][LiveNext]_vars
    /\ WF_vars(HcLocal)
    /\ SF_vars(GaLock(HC))
    /\ SF_vars(UhLock(HC))
    /\ WF_vars(GhStep(Reader) \/ GhReturn(Reader))

\* ------------------------------------------------------------------------
\* The load balancer serving requests, with its scheduling: every thread that
\* can take a step of its own code takes one, a backend's answer or the
\* client's timeout arrives, and a thread waiting for the registry's lock
\* gets it when the lock is free again and again.
\* ------------------------------------------------------------------------
WorkerLocal(t) ==
    \/ GhStep(t) \/ GhReturn(t)
    \/ RtCheck(t) \/ SelCheck(t) \/ SysFetch(t)
    \/ HResult(t) \/ HConnect(t) \/ HFinish(t)
    \/ \E r \in SysResults : HReceive(t, r)

HcRun ==
    \/ HcTop \/ HcGotAll \/ HcFor \/ HcLoad \/ ProbeAny \/ HcLog \/ HcSleep
    \/ GaPush(HC) \/ GaReturn(HC) \/ UhStore(HC) \/ UhUnlock(HC)

ServeInit ==
    /\ InitRegistry(ServeBackends) /\ InitRunning /\ InitPolicy /\ InitHealthChecker
    /\ up = [i \in DOMAIN backends_ |-> TRUE]

ServeSpec ==
    /\ ServeInit
    /\ [][Next]_vars
    /\ WF_vars(HcRun)
    /\ SF_vars(GaLock(HC))
    /\ SF_vars(UhLock(HC))
    /\ \A t \in Workers : WF_vars(WorkerLocal(t)) /\ SF_vars(GhLock(t))

\* ------------------------------------------------------------------------
\* Properties of the policy (specification PolSpec)
\* ------------------------------------------------------------------------
Count(x, seq) == Cardinality({k \in 1..Len(seq) : seq[k] = x})

\* C1: On a freshly constructed policy (no reset) whose successful selects
\* were all given the same non-empty list of length n, the k-th select
\* (k = 0, 1, ...) returned list[k mod n]; on the list 8080, 8081, 8082 the
\* first nine selects returned 8080,8081,8082,8080,8081,8082,8080,8081,8082;
\* on a one-element list every select returned that element.
C1_RoundRobinSequence ==
    (hist.noReset /\ hist.uniform /\ hist.list # <<>>) =>
        LET n == Len(hist.list) IN
        /\ \A k \in 0..(Len(hist.chosen) - 1) :
              hist.chosen[k + 1] = hist.list[(k % n) + 1]
        /\ (Ports(hist.list) = <<8080, 8081, 8082>> /\ Len(hist.chosen) >= 9) =>
              SubSeq(Ports(hist.chosen), 1, 9) =
                  <<8080, 8081, 8082, 8080, 8081, 8082, 8080, 8081, 8082>>
        /\ n = 1 => \A k \in 1..Len(hist.chosen) : hist.chosen[k] = hist.list[1]

C1_Witness ==
    /\ hist.noReset /\ hist.uniform
    /\ Ports(hist.list) = <<8080, 8081, 8082>>
    /\ Len(hist.chosen) = 9

\* C6: A select on the empty list returns the error whose message is exactly
\* "No healthy backends available" and leaves the counter as it was.
C6_EmptySelectLeavesCounter ==
    [][\A t \in Workers :
          (pc[t] = "sel_check" /\ cand[t] = <<>> /\ pc'[t] # pc[t]) =>
              /\ pc'[t] = "sel_ret"
              /\ sel'[t] = [ok |-> FALSE, backend |-> -1,
                            error |-> "No healthy backends available"]
              /\ counter_' = counter_]_vars

C6_Witness ==
    \E t \in Workers :
        /\ pc[t] = "sel_ret" /\ cand[t] = <<>>
        /\ sel[t].error = "No healthy backends available"
        /\ counter_ > 0

\* C7: The first select after a reset, whatever selects came before the
\* reset, returns the first element of the list it was given.
C7_FirstAfterReset ==
    hist.firstAfter # <<>> =>
        hist.firstAfter[1].chosen = hist.firstAfter[1].list[1]

C7_Witness ==
    /\ hist.firstAfter # <<>>
    /\ Len(hist.firstAfter[1].list) = 3
    /\ counter_ = 1

\* C10: Without a reset, concurrent selects on non-empty lists obtain
\* pairwise distinct counter values, the counter equals its initial value 0
\* plus the number of such selects, and when they were all given the same
\* list of length n, each candidate was chosen floor(k/n) or ceil(k/n) times
\* out of the k selects.
C10_ConcurrentSelects ==
    hist.noReset =>
        LET k == Len(hist.tickets) IN
        /\ counter_ = k
        /\ \A a, b \in 1..k : a # b => hist.tickets[a] # hist.tickets[b]
        /\ (hist.uniform /\ hist.list # <<>>) =>
              LET n == Len(hist.list) IN
              /\ Len(hist.chosen) = k
              /\ \A c \in 1..n :
                    Count(hist.list[c], hist.chosen) \in {k \div n, (k + n - 1) \div n}

C10_Witness ==
    /\ hist.noReset /\ hist.uniform
    /\ Len(hist.list) = 3 /\ Len(hist.tickets) = 5
    /\ \A t \in Workers : pc[t] = "sel_ret" /\ sel[t].ok

\* ------------------------------------------------------------------------
\* Properties of the registry (specification RegSpec)
\* ------------------------------------------------------------------------
Elems(seq) == {seq[k] : k \in 1..Len(seq)}
Increasing(seq) == \A k \in 1..(Len(seq) - 1) : seq[k] < seq[k + 1]

\* C3: At the return of get_healthy_backends the list holds exactly the
\* backends whose flag is true, in insertion order, and at the return of
\* get_all_backends every backend in insertion order; with 8080, 8081, 8082
\* registered, the flags (true, false, true) give 8080, 8082 and the flags
\* all true give 8080, 8081, 8082.
C3_ListingsFilterInOrder ==
    \A t \in Workers :
        /\ (pc[t] = "gh_loop" /\ it[t] = Size) =>
              /\ Elems(result[t]) = {i \in Indices : is_healthy[i]}
              /\ Increasing(result[t])
              /\ (Size = 3 /\ is_healthy[0] /\ ~is_healthy[1] /\ is_healthy[2]) =>
                    Ports(result[t]) = <<8080, 8082>>
              /\ (Size = 3 /\ \A i \in Indices : is_healthy[i]) =>
                    Ports(result[t]) = <<8080, 8081, 8082>>
        /\ (pc[t] = "ga_loop" /\ it[t] = Size) =>
              /\ Elems(result[t]) = Indices
              /\ Increasing(result[t])
              /\ Len(result[t]) = Size

C3_Witness ==
    \E t \in Workers :
        /\ pc[t] = "gh_loop" /\ it[t] = Size
        /\ Size = 3 /\ ~is_healthy[1]
        /\ Ports(result[t]) = <<8080, 8082>>

\* C8: While a thread holds the lock exclusively (inside update_health) no
\* other thread holds it, shared or exclusive; and a thread about to take
\* the shared lock is held up only by an exclusive holder, never by the
\* threads that hold it shared.
C8_ReadersWriterExclusion ==
    /\ \A w \in UniqueHolders : SharedHolders = {} /\ UniqueHolders = {w}
    /\ \A t \in Workers :
          (pc[t] \in {"ga_call", "gh_call", "bc_call"} /\ UniqueHolders = {}) =>
              CanLockShared(mutex_)

C8_Witness ==
    \E w \in UniqueHolders : \E t \in Workers \ {w} :
        pc[t] \in {"ga_call", "gh_call", "bc_call", "uh_call"}

\* Two threads hold the lock shared at the same time.
TwoReaders == Cardinality(SharedHolders) = 2

\* C9: What get_healthy_backends has collected, at every point of its loop
\* and at its return, is the filter of the flags as they were at the single
\* instant the call took the lock: a concurrent update_health never shows in
\* one part of the list and not in another.
C9_ConsistentSnapshot ==
    \A t \in Workers :
        /\ pc[t] = "gh_loop" => result[t] = HealthyUpTo(snapFlags[t], it[t])
        /\ pc[t] = "gh_ret" => result[t] = HealthyUpTo(snapFlags[t], Size)

C9_Witness ==
    \E t \in Workers : \E w \in Workers \ {t} :
        /\ pc[t] = "gh_ret" /\ Len(result[t]) = 1 /\ Size = 3
        /\ pc[w] = "uh_ret"
        /\ snapFlags[t] # is_healthy

\* ------------------------------------------------------------------------
\* Properties of request handling (specification Spec)
\* ------------------------------------------------------------------------
AllDown(flags) == \A i \in DOMAIN flags : ~flags[i]

\* The worker t takes a step of its own (a change of its position, or one
\* more element of the loop it is in).
Steps(t) == pc'[t] # pc[t] \/ it'[t] # it[t]

\* C2: A request whose registry snapshot finds every flag false never reaches
\* the policy and opens no connection, is answered 503 with the body
\* {"error": "No healthy backends available"}, and none of its steps changes
\* the counter or a health flag.
C2_NoHealthyAnswers503 ==
    /\ [](\A t \in Workers : AllDown(snapFlags[t]) =>
              /\ pc[t] \in {"gh_loop", "gh_ret", "rt_ret", "done"}
              /\ conn[t] = <<>>
              /\ pc[t] = "rt_ret" => sel[t] = Err("No healthy backends available")
              /\ pc[t] = "done" =>
                    resp[t] = [status |-> 503,
                               body |-> "{\"error\": \"No healthy backends available\"}"])
    /\ [][\A t \in Workers : (AllDown(snapFlags'[t]) /\ Steps(t)) =>
              /\ counter_' = counter_
              /\ is_healthy' = is_healthy]_vars

\* A request has been answered 503 after a snapshot with every flag false.
C2_Witness ==
    \E t \in Workers :
        /\ pc[t] = "done" /\ AllDown(snapFlags[t])
        /\ resp[t].status = 503 /\ resp[t].body = NoHealthyBody
        /\ conn[t] = <<>>

\* C4: The backend a request is forwarded to is a member of that request's
\* own list_healthy snapshot: the candidates handed to the policy are the
\* backends whose flags were true when the snapshot was taken, the selection
\* is one of them, and the connection is opened to the selection.
C4_ForwardedWasHealthyAtSnapshot ==
    /\ [](\A t \in Workers :
              /\ pc[t] \in {"sel_check", "sel_fetch", "sel_ret"} =>
                    cand[t] = HealthyUpTo(snapFlags[t], Size)
              /\ (pc[t] \in {"sel_ret", "h_forward"} /\ sel[t].ok) =>
                    /\ sel[t].backend \in Indices
                    /\ snapFlags[t][sel[t].backend]
              /\ pc[t] = "sel_ret" => sel[t].ok /\ sel[t].backend \in Elems(cand[t]))
    /\ [][\A t \in Workers : (pc[t] = "h_forward" /\ pc'[t] = "h_wait") =>
              /\ conn'[t] = <<sel[t].backend>>
              /\ snapFlags[t][conn'[t][1]]]_vars

\* A request is waiting on a backend whose flag has turned false since the
\* request's snapshot.
C4_Witness ==
    \E t \in Workers :
        /\ pc[t] = "h_wait" /\ Len(conn[t]) = 1
        /\ ~is_healthy[conn[t][1]]

C21_RequestReplayedAsReceived ==
    \A t \in Workers :
        conn[t] # <<>> => sent[t] = req[t]

\* C19 as stated: when the chosen backend gives no response, the handler
\* marks that backend unhealthy at once and goes on to try another backend
\* for the same request instead of answering.
C19_FailureMarksUnhealthyAndRetries ==
    [][\A t \in Workers :
          (pc[t] = "h_wait" /\ pc'[t] # "h_wait" /\ backend_res'[t].kind = "null") =>
              /\ ~is_healthy'[sel[t].backend]
              /\ pc'[t] # "done"]_vars

\* C20 as stated: the response carries the backend's status and headers;
\* Content-Length is overwritten exactly when the injection changed the body,
\* and then the response has a single Content-Length, the new body's length.
C20_StatusHeadersContentLength ==
    \A t \in Workers :
        (pc[t] = "done" /\ backend_res[t].kind = "response") =>
            LET changed == resp[t].body # backend_res[t].body
                others(hs) == SelectSeq(hs, LAMBDA h : ToLower(h[1]) # "content-length")
            IN  /\ resp[t].status = backend_res[t].status
                /\ others(resp_headers[t]) = others(backend_res[t].headers)
                /\ ~changed => resp_headers[t] = backend_res[t].headers
                /\ changed =>
                      HeaderValues(resp_headers[t], "Content-Length")
                          = << <<"Content-Length", ToString(Len(resp[t].body))>> >>

\* ------------------------------------------------------------------------
\* Properties of the health-check loop (specification HcSpec)
\* ------------------------------------------------------------------------
\* The loop is between update_health's return and the log lines: the flag of
\* backend hc_i has just been written with the result of the probe probe_res.
Written == pc[HC] = "uh_ret"

\* C11 as stated: a probe that receives any 2xx status marks the backend
\* healthy; a non-2xx status, no connection or a timeout marks it unhealthy.
C11_Any2xxMarksHealthy ==
    Written =>
        /\ (probe_res.kind = "response" /\ probe_res.status \in 200..299)
              => is_healthy[hc_i]
        /\ (probe_res.kind = "response" /\ probe_res.status \notin 200..299)
              => ~is_healthy[hc_i]
        /\ probe_res.kind = "null" => ~is_healthy[hc_i]

\* C11 as amended: a probe that receives status 200 marks the backend
\* healthy; a probe that receives any other status (another 2xx included),
\* fails to connect or times out marks it unhealthy.
C11_Only200MarksHealthy ==
    Written =>
        /\ (probe_res.kind = "response" /\ probe_res.status = 200)
              => is_healthy[hc_i]
        /\ (probe_res.kind = "response" /\ probe_res.status # 200)
              => ~is_healthy[hc_i]
        /\ probe_res.kind = "null" => ~is_healthy[hc_i]

\* A probe answered 204 has left the flag false.
C11_Witness ==
    /\ Written
    /\ probe_res = [kind |-> "response", status |-> 204]
    /\ ~is_healthy[hc_i]

\* C12: a probe counts as success if and only if a response was received
\* and its status is exactly 200; that result is what update_health is
\* called with and what the flag holds afterwards, so every other outcome
\* (another status, no response, an exception) writes the flag false.
C12_SuccessIffStatus200 ==
    LET success == probe_res.kind = "response" /\ probe_res.status = 200
    IN  /\ pc[HC] \in {"uh_call", "uh_store", "uh_unlock", "uh_ret"} =>
              /\ probe_res.kind \in {"response", "null", "exception"}
              /\ probe_ok <=> success
        /\ pc[HC] \in {"uh_call", "uh_store"} =>
              arg[HC] = [index |-> hc_i, is_healthy |-> success]
        /\ pc[HC] \in {"uh_unlock", "uh_ret"} => (is_healthy[hc_i] <=> success)

\* A probe that raised an exception has turned a true flag false.
C12_Witness ==
    /\ Written
    /\ probe_res.kind = "exception"
    /\ was_healthy /\ ~is_healthy[hc_i]

\* C13: no probe outcome ends the loop.  Whatever the probe came back with,
\* the loop's next step is the call update_health(i, result); after the call
\* it goes on to backend i + 1; it leaves the for loop before the last
\* backend, and it leaves the while loop, only when a stop was requested.
C13_ProbeNeverEndsLoop ==
    [][/\ (pc[HC] = "hc_probe" /\ pc'[HC] # "hc_probe") =>
              /\ pc'[HC] = "uh_call"
              /\ arg'[HC].index = hc_i
              /\ arg'[HC].is_healthy \in BOOLEAN
       /\ (pc[HC] = "uh_ret" /\ pc'[HC] # "uh_ret") =>
              /\ pc'[HC] = "hc_for"
              /\ hc_i' = hc_i + 1
       /\ (pc[HC] = "hc_for" /\ pc'[HC] = "hc_sleep") =>
              stop_requested \/ hc_i = Len(hc_backends)
       /\ (pc[HC] = "hc_sleep" /\ pc'[HC] # "hc_sleep") => pc'[HC] = "hc_top"
       /\ (pc[HC] # "hc_exit" /\ pc'[HC] = "hc_exit") =>
              pc[HC] = "hc_top" /\ stop_requested]_vars

\* A probe raised an exception, no stop is requested, and the loop has called
\* update_health for that backend and is about to go on.
C13_Witness ==
    /\ pc[HC] = "uh_ret"
    /\ probe_res = [kind |-> "exception", status |-> 0]
    /\ ~was_healthy /\ ~is_healthy[hc_i]
    /\ ~stop_requested

\* C14 as stated: once a stop has been requested the loop starts no new
\* probe.
C14_NoProbeStartsAfterStop ==
    [][stop_requested => ~(pc[HC] = "hc_load" /\ pc'[HC] = "hc_probe")]_vars

\* C14 as amended: the stop is checked at the top of every cycle and before
\* every probe, and once a stop has been requested no check passes any more:
\* the loop enters no new cycle and moves on to no further backend, so the
\* only probe still performed is the one whose check had passed before the
\* request, and no backend later in registry order is probed.
C14_NoCheckPassesAfterStop ==
    [][stop_requested =>
          /\ (pc[HC] = "hc_top" /\ pc'[HC] # "hc_top") => pc'[HC] = "hc_exit"
          /\ (pc[HC] = "hc_for" /\ pc'[HC] # "hc_for") => pc'[HC] = "hc_sleep"
          /\ pc'[HC] = "hc_load" => pc[HC] = "hc_load"
          /\ pc'[HC] = "ga_call" => pc[HC] = "ga_call"
          /\ pc'[HC] = "hc_probe" => (pc[HC] \in {"hc_load", "hc_probe"} /\ hc_i' = hc_i)]_vars

\* The stop came while the first of two backends was being probed; the
\* probe's set_health is done and the loop is leaving the cycle without
\* having probed the second.
C14_Witness ==
    /\ stop_requested
    /\ pc[HC] = "hc_sleep"
    /\ hc_i = 1 /\ Len(hc_backends) = 2

\* C16: when main shuts down, the health-check loop has returned before the
\* registry is destroyed: from the join in the thread member's destructor on
\* the loop is at its exit, inside no registry call and holding no lock.
C16_LoopExitedBeforeTeardown ==
    main_pc \in {"joined", "destroyed"} =>
        /\ pc[HC] = "hc_exit"
        /\ HC \notin SharedHolders \cup UniqueHolders
        /\ stop_requested

\* The registry has been destroyed after the loop returned.
C16_Witness ==
    /\ main_pc = "destroyed"
    /\ pc[HC] = "hc_exit"

C22_BackendSetFixed ==
    /\ [](\E n \in 1..MaxBackends :
             /\ backends_ = Config(n)
             /\ DOMAIN is_healthy = 0..(n - 1)
             /\ \A t \in Workers :
                   /\ pc[t] = "bc_ret" => result[t] = <<n>>
                   /\ pc[t] = "ga_ret" =>
                         /\ Len(result[t]) = n
                         /\ \A k \in 1..n : backends_[result[t][k]] = BackendServer(k - 1))
    /\ [][backends_' = backends_]_vars

\* All three backends have been marked unhealthy and a listing of all
\* backends still returns three.
C22_Witness ==
    \E t \in Workers :
        /\ pc[t] = "ga_ret" /\ Len(result[t]) = 3
        /\ AllDown(is_healthy)

NoneDown(flags) == \A i \in DOMAIN flags : flags[i]

\* C23: after construction every flag is true, the flags leave that state only
\* by a store of update_health, and a get_healthy_backends call that took the
\* lock while they were all true returns every backend, as get_all_backends
\* does.
C23_StartsHealthy ==
    /\ NoneDown(is_healthy)
    /\ [][NoneDown(is_healthy) /\ ~NoneDown(is_healthy') =>
             \E t \in Threads : pc[t] = "uh_store" /\ pc'[t] = "uh_unlock"]_vars
    /\ [](\A t \in Workers :
             pc[t] = "gh_ret" /\ NoneDown(snapFlags[t]) => result[t] = AllUpTo(Size))

\* Three backends, none ever marked, and a listing of the healthy ones has
\* returned all three.
C23_Witness ==
    \E t \in Workers :
        /\ pc[t] = "gh_ret" /\ result[t] = <<0, 1, 2>>
        /\ NoneDown(is_healthy)
        /\ \A u \in Workers \ {t} : pc[u] = "idle"

\* C24: the store of update_health(index, h) sets the flag at index to h and
\* leaves every other flag as it was, and changes no flag when index is not
\* less than the number of backends; no other step changes a flag; and two
\* updates on different indices give the same flags in either order.
C24_UpdateTouchesOneFlag ==
    /\ [][\A t \in Threads :
             IF pc[t] = "uh_store" /\ pc'[t] = "uh_unlock"
             THEN /\ DOMAIN is_healthy' = DOMAIN is_healthy
                  /\ \A j \in Indices :
                        is_healthy'[j] = IF j = arg[t].index THEN arg[t].is_healthy
                                         ELSE is_healthy[j]
                  /\ backends_' = backends_
             ELSE (\A u \in Threads : ~(pc[u] = "uh_store" /\ pc'[u] = "uh_unlock")) =>
                      is_healthy' = is_healthy]_vars
    /\ [](\A i, j \in 0..Size, h1, h2 \in BOOLEAN :
             i # j =>
                 UpdateFlags(UpdateFlags(is_healthy, i, h1), j, h2)
                     = UpdateFlags(UpdateFlags(is_healthy, j, h2), i, h1))

\* An update with the first invalid index has done its store while one
\* backend is marked unhealthy and another healthy.
C24_Witness ==
    \E t \in Workers :
        /\ pc[t] = "uh_unlock" /\ arg[t].index = Size
        /\ ~arg[t].is_healthy
        /\ \E i, j \in Indices : is_healthy[i] /\ ~is_healthy[j]

\* ------------------------------------------------------------------------
\* Freedom from deadlock (specification ServeSpec)
\* ------------------------------------------------------------------------
Holders == SharedHolders \cup UniqueHolders

\* The responses a handler can end with for what came back from the backend.
Answers(t) ==
    CASE backend_res[t].kind = "response" ->
            {[status |-> backend_res[t].status,
              body |-> Inject(backend_res[t].body, "text/plain",
                              backends_[conn[t][1]].port).body]}
      [] backend_res[t].kind = "null" -> {[status |-> 503, body |-> ConnFailedBody]}
      [] backend_res[t].kind = "exception" -> {[status |-> 503, body |-> RequestFailedBody]}
      [] OTHER -> {[status |-> 503, body |-> NoHealthyBody]}

\* C25: the lock's state is its holders, so a thread that waits for the lock
\* waits for a holder other than itself; every holder releases the lock; and
\* every started request reaches its end, with one response written once: the
\* backend's response or one of the three 503 responses.
C25_NoDeadlock ==
    /\ [](/\ mutex_.shared = Cardinality(SharedHolders)
          /\ mutex_.unique <=> UniqueHolders # {}
          /\ Cardinality(UniqueHolders) <= 1
          /\ \A t \in Workers : pc[t] = "done" => resp[t] \in Answers(t))
    /\ [][\A t \in Workers : resp[t] # NoResp => resp'[t] \in {resp[t], NoResp}]_vars
    /\ \A t \in Threads : (t \in Holders) ~> (t \notin Holders)
    /\ \A t \in Workers : (pc[t] # "idle") ~> (pc[t] = "done")

\* Both workers and the health check are inside the registry: one worker holds
\* the lock shared, the health check waits to write and the other worker
\* waits to read.
C25_Witness ==
    /\ pc["w1"] = "gh_loop"
    /\ pc[HC] = "uh_call"
    /\ pc["w2"] = "gh_call"

\* ------------------------------------------------------------------------
\* Properties of the injector (specification InjSpec)
\* ------------------------------------------------------------------------
\* The handler of worker t has called inject and written its response: the
\* call's three arguments and the body the response carries.
Injected(t) == pc[t] = "done" /\ backend_res[t].kind = "response"
InBody(t) == backend_res[t].body
InType(t) == GetHeaderValue(backend_res[t].headers, "Content-Type")
InPort(t) == backends_[conn[t][1]].port
OutBody(t) == resp[t].body

Comment(port) == "<!-- Served by backend server on port " \o ToString(port) \o " -->"
Trailer(port) == "\n[Served by backend server on port " \o ToString(port) \o "]"
Contains(str, sub) == Find(str, sub) # 0

\* The main type of each content type, and what each rule makes of each body,
\* tabulated once.
MainTypeOf == [content_type \in InjContentTypes
                  |-> GetContentTypeMain(content_type)] @@ <<>>
RulesOf ==
    [x \in InjBodies \X {BasePort + i : i \in 0..(MaxBackends - 1)}
        |-> [markup |-> InjectHtml(x[1], x[2]),
             structured |-> InjectJson(x[1], x[2]).body,
             plain |-> InjectText(x[1], x[2]),
             parses |-> JsonParse(x[1]).ok]] @@ <<>>
Rule(t) == RulesOf[<<InBody(t), InPort(t)>>]

\* C26: the rule is chosen by the content type cut at its first ';' and
\* lower-cased: the markup rule when it contains "html", else the structured
\* rule when it contains "json", else the plain rule when it contains
\* "text", else the body is returned as it came; text/html takes the markup
\* rule, a parameter after the ';' decides nothing, and
\* application/octet-stream gives the body back.
C26_ClassifiedByMainType ==
    \A t \in Workers :
        Injected(t) =>
            LET main_type == MainTypeOf[InType(t)]
            IN  /\ OutBody(t) =
                      (IF Contains(main_type, "html") THEN Rule(t).markup
                       ELSE IF Contains(main_type, "json") THEN Rule(t).structured
                       ELSE IF Contains(main_type, "text") THEN Rule(t).plain
                       ELSE InBody(t))
                /\ main_type \in {"text/html", "application/xhtml+xml", "application/json",
                                    "text/json", "text/plain", "application/octet-stream"}
                /\ InType(t) = "text/html" =>
                      /\ Contains(OutBody(t), Comment(InPort(t)))
                      /\ ~Contains(OutBody(t), Trailer(InPort(t)))
                /\ InType(t) = "text/plain; format=html" =>
                      OutBody(t) = InBody(t) \o Trailer(InPort(t))
                /\ InType(t) = "application/octet-stream" => OutBody(t) = InBody(t)

\* A body declared text/html that holds no markup got the comment and not
\* the trailer.
C26_Witness ==
    \E t \in Workers :
        /\ Injected(t) /\ InType(t) = "text/html" /\ InBody(t) = "Hello World"
        /\ OutBody(t) = "Hello World\n<!-- Served by backend server on port 8080 -->"

\* C27: under the markup rule the result is the body with one piece of text
\* inserted at some position k; when the body has a closing body tag in any
\* letter case, the piece is the comment line, the tag follows it at once
\* and no tag starts before k; when it has none, the piece is a line break
\* and the comment, at the end.
C27_CommentBeforeFirstBodyTag ==
    \A t \in Workers :
        (Injected(t) /\ Contains(MainTypeOf[InType(t)], "html")) =>
            LET body == InBody(t)
                has_tag == Contains(ToLower(body), "</body>")
                piece == IF has_tag THEN Comment(InPort(t)) \o "\n"
                         ELSE "\n" \o Comment(InPort(t))
            IN  \E k \in 0..Len(body) :
                    /\ OutBody(t) = Slice(body, 1, k) \o piece \o Slice(body, k + 1, Len(body))
                    /\ has_tag =>
                          /\ ToLower(Slice(body, k + 1, k + 7)) = "</body>"
                          /\ ~Contains(ToLower(Slice(body, 1, k + 6)), "</body>")
                    /\ ~has_tag => k = Len(body)

\* A body with an upper-case closing tag and a second tag after it got the
\* comment before the first one.
C27_Witness ==
    \E t \in Workers :
        /\ Injected(t) /\ InType(t) = "text/html; charset=utf-8"
        /\ InBody(t) = "<BODY>a</BODY>b</body>"
        /\ OutBody(t) = "<BODY>a<!-- Served by backend server on port 8080 -->\n</BODY>b</body>"

\* C28: under the structured rule a body that parses gives a document that
\* parses to an object: for an object, with the members of the body, each
\* with its value, and one more, _server = "backend-<port>"; for any other
\* value, with the two members data, the body's value, and _server.
C28_ServerKeyAdded ==
    \A t \in Workers :
        LET main_type == MainTypeOf[InType(t)]
            in == JsonParse(InBody(t))
            out == JsonParse(OutBody(t))
            server == JsonString("backend-" \o ToString(InPort(t)))
        IN  (/\ Injected(t)
             /\ ~Contains(main_type, "html") /\ Contains(main_type, "json")
             /\ in.ok) =>
                /\ out.ok /\ out.value.type = "object"
                /\ <<"_server", server>> \in Elems(out.value.parts)
                /\ IF in.value.type = "object"
                   THEN /\ Len(out.value.parts) = Len(in.value.parts) + 1
                        /\ Elems(in.value.parts) \subseteq Elems(out.value.parts)
                   ELSE Elems(out.value.parts)
                            = {<<"_server", server>>, <<"data", in.value>>}

\* C29: under the plain rule, and under the structured rule when the body does
\* not parse, the response is the backend's, with the body followed by the
\* trailer line.
C29_TrailerAppended ==
    \A t \in Workers :
        LET main_type == MainTypeOf[InType(t)]
        IN  (/\ Injected(t)
             /\ ~Contains(main_type, "html")
             /\ \/ Contains(main_type, "json") /\ ~Rule(t).parses
                \/ ~Contains(main_type, "json") /\ Contains(main_type, "text")) =>
                /\ resp[t].status = backend_res[t].status
                /\ OutBody(t) = InBody(t)
                                  \o "\n[Served by backend server on port "
                                  \o ToString(InPort(t)) \o "]"

\* The body {invalid json} declared application/json got the trailer.
C29_Witness ==
    \E t \in Workers :
        /\ Injected(t) /\ InType(t) = "application/json"
        /\ InBody(t) = "{invalid json}"
        /\ resp[t] = [status |-> 200,
                       body |-> "{invalid json}\n[Served by backend server on port 8080]"]

Fetches(t) == pc[t] = "sel_fetch" /\ pc'[t] = "sel_ret"

\* C32 as stated: a select on a non-empty list raises the counter by one
\* (modulo 2^CounterBits) in one step and returns the candidate at the index
\* (value after the increment) mod length.
C32_IndexAfterIncrement ==
    [][\A t \in Workers :
          Fetches(t) =>
              /\ counter_' = (counter_ + 1) % CounterMod
              /\ sel'[t] = Ok(cand[t][(counter_' % Len(cand[t])) + 1])]_vars

\* C32: a select on a non-empty list raises the counter by one (modulo
\* 2^CounterBits) in one step and returns the candidate at the index (value
\* before the increment) mod length.
C32_IndexBeforeIncrement ==
    [][\A t \in Workers :
          Fetches(t) =>
              /\ cand[t] # <<>>
              /\ counter_' = (counter_ + 1) % CounterMod
              /\ sel'[t] = Ok(cand[t][(counter_ % Len(cand[t])) + 1])]_vars

\* A select on three candidates read the counter's value 1, returned the
\* second candidate and left the counter at 2.
C32_Witness ==
    \E t \in Workers :
        /\ pc[t] = "sel_ret" /\ sel[t].ok /\ Len(cand[t]) = 3
        /\ hist.last # <<>> /\ hist.last[1].ticket = 1
        /\ hist.last[1].list = cand[t] /\ sel[t].backend = cand[t][2]
        /\ counter_ = 2

\* The position of candidate b in list.
Pos(list, b) == CHOOSE k \in 1..Len(list) : list[k] = b

\* C37 as stated: a successful select never lowers the counter, it raises it
\* by exactly one, whatever its value; and of two consecutive selects (no
\* reset between them) given the same list, the second returns the candidate
\* that follows the first one's in the list, cyclically.
C37_CounterNeverDecreases ==
    /\ [][\A t \in Workers : Fetches(t) => counter_' = counter_ + 1]_vars
    /\ []((/\ hist.prev # <<>> /\ hist.last # <<>>
           /\ hist.prev[1].list = hist.last[1].list) =>
              LET list == hist.last[1].list
              IN  Pos(list, hist.last[1].chosen)
                      = (Pos(list, hist.prev[1].chosen) % Len(list)) + 1)

\* C38: every selection is a member of the snapshot it was made from, for
\* the selects in progress and for the two latest ones, whatever lists the
\* selects before them were given.
C38_SelectedFromOwnSnapshot ==
    /\ \A t \in Workers :
          (pc[t] = "sel_ret" /\ sel[t].ok) => sel[t].backend \in Elems(cand[t])
    /\ \A turn \in Elems(hist.prev) \cup Elems(hist.last) :
          turn.chosen \in Elems(turn.list)

\* Two consecutive selects, the second on a snapshot that lost a backend,
\* returned the same backend, and a backend that was in both snapshots was
\* passed over.
C38_Witness ==
    /\ hist.prev # <<>> /\ hist.last # <<>>
    /\ hist.last[1].ticket = hist.prev[1].ticket + 1
    /\ Len(hist.last[1].list) < Len(hist.prev[1].list)
    /\ hist.last[1].chosen = hist.prev[1].chosen
    /\ \E b \in Elems(hist.prev[1].list) \cap Elems(hist.last[1].list) :
          b # hist.last[1].chosen

\* ------------------------------------------------------------------------
\* The lock and the network (specification Spec)
\* ------------------------------------------------------------------------
\* The threads waiting for the network: the health check with its probe in
\* flight, a worker with its forwarded request in flight.
NetIO ==
    {t \in Threads : (t = HC /\ pc[t] = "hc_probe") \/ (t \in Workers /\ pc[t] = "h_wait")}

\* C33: the lock's state counts only threads inside a registry read or write,
\* none of them waiting for the network; while a probe is in flight the lock
\* is not held exclusively, so a registry read is granted at once; and while
\* every worker waits for its backend, the health check's write is granted
\* at once.
C33_NoLockDuringNetworkIO ==
    /\ NetIO \cap Holders = {}
    /\ mutex_.shared = Cardinality(SharedHolders \ NetIO)
    /\ mutex_.unique <=> (UniqueHolders \ NetIO) # {}
    /\ pc[HC] = "hc_probe" => CanLockShared(mutex_)
    /\ (pc[HC] = "uh_call" /\ \A t \in Workers : pc[t] = "h_wait") =>
          CanLockUnique(mutex_)

\* While the probe is in flight and one worker waits for its backend, the
\* other worker is reading the registry.
C33_Witness ==
    /\ pc[HC] = "hc_probe"
    /\ pc["w1"] = "h_wait"
    /\ pc["w2"] = "gh_loop"
    /\ mutex_ = [shared |-> 1, unique |-> FALSE]

\* ------------------------------------------------------------------------
\* Properties of the health monitor's passes and log (specification MonSpec)
\* ------------------------------------------------------------------------
\* The backend the loop body is at, and the step that ends the body.
Current == hc_backends[hc_i + 1]
LogStep == pc[HC] = "uh_ret" /\ pc'[HC] = "hc_for"
ChangeLines(lines) == {<<lines[k].port, lines[k].text>> :
                          k \in {j \in 1..Len(lines) : lines[j].text \in StateChanges}}

\* C34: the flag the loop read is the flag as it is until update_health
\* writes it, what update_health wrote is the probe's result, and the pass
\* writes a state-change line exactly when the two differ, HEALTHY ->
\* UNHEALTHY when the flag was true, UNHEALTHY -> HEALTHY when it was false.
C34_TransitionIffFlagChanged ==
    /\ [](pc[HC] \in {"hc_probe", "uh_call", "uh_store"} => was_healthy = is_healthy[Current])
    /\ [](pc[HC] \in {"uh_unlock", "uh_ret"} => is_healthy[Current] = probe_ok)
    /\ [][LogStep =>
            ChangeLines(hist'.lines) =
                IF was_healthy /\ ~probe_ok
                THEN {<<backends_[Current].port, "state changed HEALTHY -> UNHEALTHY">>}
                ELSE IF ~was_healthy /\ probe_ok
                THEN {<<backends_[Current].port, "state changed UNHEALTHY -> HEALTHY">>}
                ELSE {}]_vars

\* The pass over 8080 found it down and wrote the line; 8081 went down and
\* came back before.
C34_Witness ==
    /\ ChangeLines(hist.lines) = {<<8080, "state changed HEALTHY -> UNHEALTHY">>}
    /\ ~is_healthy[0]
    /\ 8081 \in hist.up

C36_ProbesInRegistryOrder ==
    /\ [](pc[HC] = "hc_probe" =>
             /\ hc_i < Len(hc_backends)
             /\ hc_backends = [k \in 1..Size |-> k - 1])
    /\ [][hc_i' # hc_i =>
            \/ /\ pc[HC] = "uh_ret" /\ hc_i' = hc_i + 1
               /\ is_healthy[Current] = probe_ok
            \/ hc_i' = 0 /\ pc[HC] \in {"ga_ret", "hc_sleep"}]_vars
    /\ [][LogStep => hc_i' = hc_i + 1]_vars
    /\ [][(pc'[HC] = "hc_probe" /\ pc[HC] # "hc_probe") => pc[HC] = "hc_load"]_vars

\* The second backend's probe is in flight and the first one's result, a
\* failure, is in the registry.
C36_Witness ==
    /\ pc[HC] = "hc_probe" /\ hc_i = 1
    /\ ~is_healthy[0] /\ is_healthy[1]
    /\ hist.lines[1] = LogLine("error", 8080, "UNHEALTHY")

Running == {k \in LoopIds : loops[k].pos \in {"top", "for", "probe"}}

\* C40 as stated: at most one launched thread is inside health_check_loop,
\* and while a thread's probe is in flight every thread launched before it
\* has returned from its loop.
C40_OneLoopAtATime ==
    /\ Cardinality(Running) <= 1
    /\ \A k \in LoopIds :
          loops[k].pos = "probe" => \A j \in 1..(k - 1) : loops[j].pos = "returned"

\* ------------------------------------------------------------------------
\* The configuration load (specification CfgSpec)
\* ------------------------------------------------------------------------
\* The file gives this health_check member a value that is not positive.
NotPositive(m) == m.has /\ m.v <= 0

\* One of the conditions under which load is to return an error.
Rejectable ==
    \/ config_file.paths = {}
    \/ ~config_file.content.valid
    \/ ~(Sections \subseteq config_file.content.sections)
    \/ config_file.content.backends = 0
    \/ NotPositive(config_file.content.interval_seconds)
    \/ NotPositive(config_file.content.timeout_seconds)

\* C31 as stated: once load has returned, it returned an error when the file
\* is at none of the search paths, is no JSON, lacks one of the sections
\* load_balancer, backends, health_check, lists no backend, or gives
\* interval_seconds or timeout_seconds a value that is not positive; and a
\* registry that was built has at least one backend and a health checker with
\* positive interval and timeout.
C31_LoadRejects ==
    /\ (main_pc # "load" /\ Rejectable) => ~config_result.has_value
    /\ main_pc = "serving" =>
          /\ Size >= 1
          /\ config_result.interval_seconds > 0
          /\ config_result.timeout_seconds > 0
====
